---- MODULE Spec2Model ----
(***************************************************************************)
(* toylang: character stream, lexer, precedence-climbing parser, scope     *)
(* resolver, type checker and tree-walking evaluator, as run by eval().    *)
(* Source text is a sequence of one-character strings (all ASCII, so a     *)
(* character index is a byte offset).                                      *)
(***************************************************************************)
EXTENDS Integers, Sequences, FiniteSets, TLC

\* ------------------------------------------------------------------ bounds

\* Longest scoping program, in statements.
MaxStmts == 3

MaxTypedStmts == 3

\* Most peeks and takes made on a lexer driven directly.
MaxLexerOps == 4

\* Longest text given to that lexer, in pieces.
MaxPieces == 2

\* Longest text given to a CharStream driven directly, in characters.
MaxChars == 3

\* Most operations made on that CharStream.
MaxStreamOps == 4

\* ------------------------------------------------------------ Option, text

None == [tag |-> "None"]

Some(x) == [tag |-> "Some", v |-> x]

is_some(o) == o.tag = "Some"

RECURSIVE Cat(_)
\* Concatenation of a sequence of character sequences.
Cat(parts) == IF parts = <<>> THEN <<>> ELSE Head(parts) \o Cat(Tail(parts))

SP == <<" ">>

kw_let == <<"l", "e", "t">>

kw_mut == <<"m", "u", "t">>

ty_i32 == <<"i", "3", "2">>

ty_bool == <<"b", "o", "o", "l">>

Digits == {"0", "1", "2", "3", "4", "5", "6", "7", "8", "9"}

DigitValue(ch) ==
  CASE ch = "0" -> 0 [] ch = "1" -> 1 [] ch = "2" -> 2 [] ch = "3" -> 3
    [] ch = "4" -> 4 [] ch = "5" -> 5 [] ch = "6" -> 6 [] ch = "7" -> 7
    [] ch = "8" -> 8 [] ch = "9" -> 9

IdentFirstChars ==
  {"a", "b", "c", "d", "e", "f", "g", "h", "i", "j", "k", "l", "m",
   "n", "o", "p", "q", "r", "s", "t", "u", "v", "w", "x", "y", "z",
   "A", "B", "C", "D", "E", "F", "G", "H", "I", "J", "K", "L", "M",
   "N", "O", "P", "Q", "R", "S", "T", "U", "V", "W", "X", "Y", "Z",
   "_"}

\* ------------------------------------------------------------- parse_utils

is_whitespace(ch) == ch = " " \/ ch = "\r" \/ ch = "\n"

is_valid_identifier_first(ch) == ch \in IdentFirstChars

is_valid_in_identifier(ch) == ch \in Digits \/ ch \in IdentFirstChars

is_digit(ch) == ch \in Digits

\* -------------------------------------------------------------- CharStream
\* A stream is [full, off]: `remaining` is the suffix of `full` after `off`
\* consumed bytes.

\* `let x = v; body`: binds a value once.
With(v, body(_)) == body(v)

CharStream_from_str(data) == [full |-> data, off |-> 0]

cs_remaining(cs) == SubSeq(cs.full, cs.off + 1, Len(cs.full))

cs_peek(cs) ==
  IF cs.off >= Len(cs.full) THEN None ELSE Some(cs.full[cs.off + 1])

cs_advance(cs) ==
  IF cs.off < Len(cs.full) THEN [cs EXCEPT !.off = @ + 1] ELSE cs

RECURSIVE str_find(_, _, _)
\* Byte index of the first char of s, at or after position i, that the
\* predicate accepts, or -1 for none: str::find with a predicate.
str_find(s, stop_class, i) ==
  IF i > Len(s) THEN -1
  ELSE IF stop_class[s[i]] THEN i - 1
  ELSE str_find(s, stop_class, i + 1)

\* The two arms of take_until's match on the index found.
take_until_split(cs, rem, last) ==
  IF last = -1
    THEN [text |-> rem, cs |-> [cs EXCEPT !.off = Len(cs.full)]]
    ELSE [text |-> SubSeq(rem, 1, last), cs |-> [cs EXCEPT !.off = @ + last]]

\* take_until: split `remaining` at the first char satisfying the predicate
\* (given as a function on the characters of the text); no such char takes all.
cs_take_until(cs, stop_class) ==
  With(cs_remaining(cs),
       LAMBDA rem : take_until_split(cs, rem, str_find(rem, stop_class, 1)))

CharsOf(cs) == {cs.full[i] : i \in 1..Len(cs.full)}

cs_take_while(cs, keep_class) ==
  cs_take_until(cs, [ch \in DOMAIN keep_class |-> ~keep_class[ch]])

cs_skip_whitespace(cs) ==
  cs_take_while(cs, [ch \in CharsOf(cs) |-> is_whitespace(ch)]).cs

cs_byte_offset(cs) ==
  IF cs.off >= Len(cs.full) THEN Len(cs.full) ELSE cs.off

\* ------------------------------------------------- CharStream, in bytes
\* The same CharStream over text that may hold multi-byte characters. A str
\* is its bytes, each byte marked with its character and its place in it;
\* `remaining` is a slice: where it starts in `full` and how long it is, or
\* the static "" that take_until swaps in.

\* Characters named by code point stand for themselves.
len_utf8(ch) ==
  CASE ch = "U+00E9" -> 2
    [] ch = "U+4E47" -> 3
    [] ch = "U+1F600" -> 4
    [] OTHER -> 1

Utf8(text) ==
  Cat([i \in 1..Len(text) |->
         [k \in 1..len_utf8(text[i]) |-> [ch |-> text[i], k |-> k]]])

StaticEmpty == [in_full |-> FALSE, start |-> 0, len |-> 0]

CharStream_from_text(data) ==
  [full |-> Utf8(data),
   remaining |-> [in_full |-> TRUE, start |-> 0, len |-> Len(Utf8(data))]]

\* The bytes of `remaining`.
remaining_bytes(cs) ==
  IF cs.remaining.in_full
    THEN SubSeq(cs.full, cs.remaining.start + 1, cs.remaining.start + cs.remaining.len)
    ELSE <<>>

\* str::is_char_boundary.
is_char_boundary(bytes, n) ==
  n = 0 \/ n = Len(bytes) \/ (0 < n /\ n < Len(bytes) /\ bytes[n + 1].k = 1)

\* `chars().nth(0)`.
chars_nth0(bytes) == IF bytes = <<>> THEN None ELSE Some(bytes[1].ch)

\* An operation's outcome: the stream after it, what it returned, and
\* whether a slice off a character boundary made it panic.
Outcome(cs, out, panic) == [cs |-> cs, out |-> out, panic |-> panic]

\* `self.remaining = &self.remaining[offset..]`.
slice_from(cs, offset, out) ==
  IF is_char_boundary(remaining_bytes(cs), offset)
    THEN Outcome([cs EXCEPT !.remaining.start = @ + offset,
                            !.remaining.len = @ - offset], out, FALSE)
    ELSE Outcome(cs, None, TRUE)

CharStream_peek(cs) ==
  IF cs.remaining.len = 0 THEN None ELSE chars_nth0(remaining_bytes(cs))

CharStream_advance(cs) ==
  IF cs.remaining.len > 0
    THEN slice_from(cs, len_utf8(chars_nth0(remaining_bytes(cs)).v), None)
    ELSE Outcome(cs, None, FALSE)

CharStream_take(cs) ==
  IF cs.remaining.len = 0 THEN Outcome(cs, None, FALSE)
  ELSE With(chars_nth0(remaining_bytes(cs)),
            LAMBDA ch : slice_from(cs, len_utf8(ch.v), ch))

RECURSIVE find_char(_, _, _)
\* str::find with a predicate (the set of characters it accepts): the byte
\* index of the first accepted character at or after byte i, or -1.
find_char(bytes, stop, i) ==
  IF i > Len(bytes) THEN -1
  ELSE IF bytes[i].k = 1 /\ bytes[i].ch \in stop THEN i - 1
  ELSE find_char(bytes, stop, i + 1)

\* The two arms of take_until's match: the swap with "" and split_at(n).
take_until_arm(cs, bytes, last) ==
  IF last = -1 THEN Outcome([cs EXCEPT !.remaining = StaticEmpty], bytes, FALSE)
  ELSE slice_from(cs, last, SubSeq(bytes, 1, last))

CharStream_take_until(cs, stop) ==
  With(remaining_bytes(cs),
       LAMBDA bytes : take_until_arm(cs, bytes, find_char(bytes, stop, 1)))

CharStream_take_while(cs, keep) ==
  CharStream_take_until(cs, {cs.full[i].ch : i \in 1..Len(cs.full)} \ keep)

\* byte_offset, were the check for an empty `remaining` left out (as in the
\* CharStream of token_stream.rs): the static "" is not inside `full`.
CharStream_byte_offset_unguarded(cs) == cs.remaining.start

\* A non-empty `remaining` is a slice of `full`, so the difference of the
\* two pointers is where it starts.
CharStream_byte_offset(cs) ==
  IF cs.remaining.len = 0 THEN Len(cs.full) ELSE cs.remaining.start

CharStream_remaining(cs) == cs.remaining.len

\* ------------------------------------------------------------------- Lexer

Tok(kind) == [kind |-> kind]

Punctuation(ch) ==
  CASE ch = "(" -> "LParen" [] ch = ")" -> "RParen"
    [] ch = "{" -> "LBrace" [] ch = "}" -> "RBrace"
    [] ch = "=" -> "Equals" [] ch = ";" -> "Semicolon"
    [] ch = ":" -> "Colon" [] ch = "+" -> "Plus"
    [] ch = "-" -> "Minus" [] ch = "*" -> "Asterisk"
    [] OTHER -> "Unknown"

RECURSIVE parse_integer(_, _)
\* Decimal value of a digit run (str::parse::<i128>), most significant first.
parse_integer(text, acc) ==
  IF text = <<>> THEN acc
  ELSE parse_integer(Tail(text), acc * 10 + DigitValue(Head(text)))

\* i128::MAX, in decimal.
I128MaxDigits ==
  <<"1", "7", "0", "1", "4", "1", "1", "8", "3", "4", "6", "0", "4",
    "6", "9", "2", "3", "1", "7", "3", "1", "6", "8", "7", "3", "0",
    "3", "7", "1", "5", "8", "8", "4", "1", "0", "5", "7", "2", "7">>

RECURSIVE strip_zeros(_)
\* A digit run without its leading zeros ("0" for a run of zeros).
strip_zeros(text) ==
  IF Len(text) > 1 /\ Head(text) = "0" THEN strip_zeros(Tail(text)) ELSE text

RECURSIVE digits_le(_, _)
\* a <= b, for digit runs of one length.
digits_le(a, b) ==
  IF a = <<>> THEN TRUE
  ELSE IF Head(a) # Head(b) THEN DigitValue(Head(a)) < DigitValue(Head(b))
  ELSE digits_le(Tail(a), Tail(b))

\* Whether str::parse::<i128> accepts a digit run: it does unless the value
\* is above i128::MAX.
fits_i128(text) ==
  With(strip_zeros(text),
       LAMBDA digits :
         \/ Len(digits) < Len(I128MaxDigits)
         \/ Len(digits) = Len(I128MaxDigits) /\ digits_le(digits, I128MaxDigits))

\* i32::MAX, in decimal.
I32MaxDigits == <<"2", "1", "4", "7", "4", "8", "3", "6", "4", "7">>

\* Whether a digit run is at most i32::MAX.
fits_i32(text) ==
  With(strip_zeros(text),
       LAMBDA digits :
         \/ Len(digits) < Len(I32MaxDigits)
         \/ Len(digits) = Len(I32MaxDigits) /\ digits_le(digits, I32MaxDigits))

\* Token::Integer(i128) of a digit run that parses: `value` is the number
\* when it is at most i32::MAX; a wider one is held as `digits`, its decimal
\* digits without leading zeros.
IntegerToken(text) ==
  IF fits_i32(text) THEN [kind |-> "Integer", value |-> parse_integer(text, 0)]
  ELSE [kind |-> "Integer", digits |-> strip_zeros(text)]

\* Whether an integer token or constant holds a number above i32::MAX.
IsWide(x) == "digits" \in DOMAIN x

Lexed(cs, pos, token) == [ok |-> TRUE, cs |-> cs, pos |-> pos, token |-> token]

LexerErrorCtx(pos, error, text) ==
  [type |-> "ParseErrorCtx", pos |-> pos, error |-> "LexerError",
   lexer_error |-> error, text |-> text]

read_number(cs, pos) ==
  With(cs_take_while(cs, [ch \in CharsOf(cs) |-> is_digit(ch)]),
       LAMBDA r :
         IF fits_i128(r.text)
           THEN Lexed(r.cs, pos, IntegerToken(r.text))
           ELSE [ok |-> FALSE, err |-> LexerErrorCtx(pos, "InvalidNumber", r.text)])

keyword_or_identifier(text) ==
  IF text = kw_let THEN Tok("Let")
  ELSE IF text = kw_mut THEN Tok("Mut")
  ELSE [kind |-> "Identifier", name |-> text]

read_keyword_or_identifier(cs, pos) ==
  With(cs_take_while(cs, [ch \in CharsOf(cs) |-> is_valid_in_identifier(ch)]),
       LAMBDA r : Lexed(r.cs, pos, keyword_or_identifier(r.text)))

\* The token starting at the stream's cursor, which is past the whitespace.
read_token_at(cs, pos, fst) ==
  IF ~is_some(fst) THEN Lexed(cs, pos, Tok("EOF"))
  ELSE IF is_digit(fst.v) THEN read_number(cs, pos)
  ELSE IF is_valid_identifier_first(fst.v) THEN read_keyword_or_identifier(cs, pos)
  ELSE IF Punctuation(fst.v) # "Unknown"
    THEN Lexed(cs_advance(cs), pos, Tok(Punctuation(fst.v)))
  ELSE [ok |-> FALSE, err |-> LexerErrorCtx(pos, "UnknownToken", <<fst.v>>)]

read_token(cs0) ==
  With(cs_skip_whitespace(cs0),
       LAMBDA cs : read_token_at(cs, cs_byte_offset(cs), cs_peek(cs)))

\* TokenStream is [stream, lookahead]; lookahead caches one (pos, token).
TokenStream_new(src) == [stream |-> CharStream_from_str(src), lookahead |-> None]

\* A token handed to the parser, with the stream as the call leaves it; a
\* lexer error passes through.
Handed(r, lookahead) ==
  IF ~r.ok THEN r
  ELSE [ok |-> TRUE, lx |-> [stream |-> r.cs, lookahead |-> lookahead],
        pos |-> r.pos, token |-> r.token]

\* peek_pos: fill the cache if empty, return the cached token, consume nothing.
peek_pos(lx) ==
  IF is_some(lx.lookahead)
    THEN [ok |-> TRUE, lx |-> lx, pos |-> lx.lookahead.v.pos, token |-> lx.lookahead.v.token]
    ELSE With(read_token(lx.stream),
              LAMBDA r : Handed(r, IF r.ok THEN Some([pos |-> r.pos, token |-> r.token])
                                   ELSE None))

\* take_pos: return and clear the cache, lexing fresh if it is empty.
take_pos(lx) ==
  IF is_some(lx.lookahead)
    THEN [ok |-> TRUE, lx |-> [lx EXCEPT !.lookahead = None],
          pos |-> lx.lookahead.v.pos, token |-> lx.lookahead.v.token]
    ELSE Handed(read_token(lx.stream), None)

to_kind(token) == token.kind

\* ------------------------------------------- TokenStream of token_stream.rs
\* read_token, peek_token and take_token as the file defines them: an
\* Option<Token> without an offset, None at the end of the input and for a
\* number that does not parse. Each gives [ts or cs, token].

TokenStream_is_whitespace(ch) == ch = " "

TokenStream_skip_whitespace(cs) ==
  cs_take_while(cs, [ch \in CharsOf(cs) |-> TokenStream_is_whitespace(ch)]).cs

kw_const == <<"c", "o", "n", "s", "t">>

TokenStream_read_keyword_or_identifier(cs) ==
  With(cs_take_until(cs, [ch \in CharsOf(cs) |-> TokenStream_is_whitespace(ch)]),
       LAMBDA r :
         [cs |-> r.cs,
          token |-> IF r.text = kw_const THEN Some(Tok("Const"))
                    ELSE IF r.text = kw_let THEN Some(Tok("Let"))
                    ELSE Some([kind |-> "Identifier", name |-> r.text])])

TokenStream_read_number(cs) ==
  With(cs_take_while(cs, [ch \in CharsOf(cs) |-> is_digit(ch)]),
       LAMBDA r :
         [cs |-> r.cs,
          token |-> IF fits_i128(r.text)
                      THEN Some(IntegerToken(r.text))
                      ELSE None])

\* The match on the first character after the whitespace.
TokenStream_read_token_at(cs, fst) ==
  IF ~is_some(fst) THEN [cs |-> cs, token |-> None]
  ELSE IF fst.v \in {"(", ")", "=", ";"}
    THEN [cs |-> cs_advance(cs), token |-> Some(Tok(Punctuation(fst.v)))]
  ELSE IF is_digit(fst.v) THEN TokenStream_read_number(cs)
  ELSE TokenStream_read_keyword_or_identifier(cs)

\* read_token, were the end of the input a token that is cached.
TokenStream_read_token_caching_end(cs0) ==
  With(TokenStream_skip_whitespace(cs0),
       LAMBDA cs :
         IF is_some(cs_peek(cs)) THEN TokenStream_read_token_at(cs, cs_peek(cs))
         ELSE [cs |-> cs, token |-> Some(Tok("EOF"))])

TokenStream_read_token(cs0) ==
  With(TokenStream_skip_whitespace(cs0),
       LAMBDA cs : TokenStream_read_token_at(cs, cs_peek(cs)))

peek_token(ts) ==
  IF ~is_some(ts.lookahead)
    THEN With(TokenStream_read_token(ts.stream),
              LAMBDA r : [ts |-> [stream |-> r.cs, lookahead |-> r.token],
                          token |-> r.token])
    ELSE [ts |-> ts, token |-> ts.lookahead]

take_token(ts) ==
  IF is_some(ts.lookahead)
    THEN [ts |-> [ts EXCEPT !.lookahead = None], token |-> ts.lookahead]
    ELSE With(TokenStream_read_token(ts.stream),
              LAMBDA r : [ts |-> [ts EXCEPT !.stream = r.cs], token |-> r.token])

\* ------------------------------------------------------- ast_common, errors

\* get_precedence, were `*` given the level of `+` and `-`.
get_precedence_flat(op) ==
  CASE op \in {"Mul", "Add", "Sub"} -> 2
    [] op = "Equals" -> 0

get_precedence(op) ==
  CASE op = "Mul" -> 3
    [] op \in {"Add", "Sub"} -> 2
    [] op = "Equals" -> 0

Ok(lx, val) == [ok |-> TRUE, lx |-> lx, val |-> val]

Err(e) == [ok |-> FALSE, err |-> e]

\* The `?` operator: an Err is returned at once, an Ok goes on.
Try(r, then(_)) == IF r.ok THEN then(r) ELSE r

UnexpectedToken(pos, expected, was) ==
  [type |-> "ParseErrorCtx", pos |-> pos, error |-> "UnexpectedToken",
   expected |-> expected, was |-> was]

\* An abort (panic!, unwrap on None or Err, unimplemented!, unreachable!).
\* `type` tags it among errors and `t` among values.
Panic(where) == [type |-> "Panic", t |-> "Panic", at |-> where]

\* ------------------------------------------------------------------ Parser

\* take_of, were the kind asked for reported as the kind found.
take_of_reporting_expected(lx, kind) ==
  Try(take_pos(lx),
      LAMBDA token :
        IF to_kind(token.token) = kind THEN token
        ELSE Err(UnexpectedToken(token.pos, <<kind>>, kind)))

take_of(lx, kind) ==
  Try(take_pos(lx),
      LAMBDA token :
        IF to_kind(token.token) = kind THEN token
        ELSE Err(UnexpectedToken(token.pos, <<kind>>, to_kind(token.token))))

\* The value is the IdentifierCtx (offset, name); the token offset is its pos.
take_identifier(lx) ==
  Try(take_of(lx, "Identifier"),
      LAMBDA token : Ok(token.lx, [pos |-> token.pos, name |-> token.token.name]))

as_op(token) ==
  CASE token.kind = "Plus" -> Some("Add")
    [] token.kind = "Minus" -> Some("Sub")
    [] token.kind = "Asterisk" -> Some("Mul")
    [] OTHER -> None

IntegerConstant(pos, i) == [k |-> "IntegerConstant", pos |-> pos, value |-> i]

\* Expression::IntegerConstant(i) of the integer token's i128.
IntegerConstantOf(pos, token) ==
  IF IsWide(token)
    THEN [k |-> "IntegerConstant", pos |-> pos, digits |-> token.digits]
    ELSE IntegerConstant(pos, token.value)

Local(pos, x) == [k |-> "Local", pos |-> pos, local |-> x]

UnaryOp(pos, op, arg) == [k |-> "UnaryOp", pos |-> pos, op |-> op, arg |-> arg]

BinaryOp(pos, op, lhs, rhs) ==
  [k |-> "BinaryOp", pos |-> pos, op |-> op, lhs |-> lhs, rhs |-> rhs]

RECURSIVE parse_expression_token(_)
RECURSIVE parse_expression(_)
RECURSIVE parse_expression_opp(_, _, _)
RECURSIVE parse_expression_opp_rhs(_, _, _)

\* parse_expression_token, were the `)` of a group left in the stream.
parse_expression_token_unclosed(lx) ==
  Try(take_pos(lx),
      LAMBDA first :
        CASE first.token.kind = "Minus" ->
               Try(parse_expression_token(first.lx),
                   LAMBDA arg : Ok(arg.lx, UnaryOp(first.pos, "Negate", arg.val)))
          [] first.token.kind = "Integer" ->
               Ok(first.lx, IntegerConstantOf(first.pos, first.token))
          [] first.token.kind = "Identifier" ->
               Ok(first.lx, Local(first.pos, first.token.name))
          [] first.token.kind = "LParen" -> parse_expression(first.lx)
          [] OTHER ->
               Err(UnexpectedToken(first.pos,
                     <<"Minus", "Integer", "Identifier", "LParen">>,
                     to_kind(first.token))))

\* parse_expression_token, were the operand of `-` a whole expression.
parse_expression_token_greedy(lx) ==
  Try(take_pos(lx),
      LAMBDA first :
        CASE first.token.kind = "Minus" ->
               Try(parse_expression(first.lx),
                   LAMBDA arg : Ok(arg.lx, UnaryOp(first.pos, "Negate", arg.val)))
          [] first.token.kind = "Integer" ->
               Ok(first.lx, IntegerConstantOf(first.pos, first.token))
          [] first.token.kind = "Identifier" ->
               Ok(first.lx, Local(first.pos, first.token.name))
          [] first.token.kind = "LParen" ->
               Try(parse_expression(first.lx),
                   LAMBDA inner :
                     Try(take_of(inner.lx, "RParen"),
                         LAMBDA close : Ok(close.lx, inner.val)))
          [] OTHER ->
               Err(UnexpectedToken(first.pos,
                     <<"Minus", "Integer", "Identifier", "LParen">>,
                     to_kind(first.token))))

parse_expression_token(lx) ==
  Try(take_pos(lx),
      LAMBDA first :
        CASE first.token.kind = "Minus" ->
               Try(parse_expression_token(first.lx),
                   LAMBDA arg : Ok(arg.lx, UnaryOp(first.pos, "Negate", arg.val)))
          [] first.token.kind = "Integer" ->
               Ok(first.lx, IntegerConstantOf(first.pos, first.token))
          [] first.token.kind = "Identifier" ->
               Ok(first.lx, Local(first.pos, first.token.name))
          [] first.token.kind = "LParen" ->
               Try(parse_expression(first.lx),
                   LAMBDA inner :
                     Try(take_of(inner.lx, "RParen"),
                         LAMBDA close : Ok(close.lx, inner.val)))
          [] OTHER ->
               Err(UnexpectedToken(first.pos,
                     <<"Minus", "Integer", "Identifier", "LParen">>,
                     to_kind(first.token))))

parse_expression(lx) ==
  Try(parse_expression_token(lx),
      LAMBDA lhs : parse_expression_opp(lhs.lx, lhs.val, 0))

\* The inner loop of parse_expression_opp: while the next token is an operator
\* binding at least as tightly as op, fold it into rhs.
parse_expression_opp_rhs(lx, rhs, op) ==
  Try(peek_pos(lx),
      LAMBDA next :
        With(as_op(next.token),
             LAMBDA next_op :
               IF is_some(next_op) /\ get_precedence(next_op.v) >= get_precedence(op)
                 THEN Try(parse_expression_opp(next.lx, rhs, get_precedence(next_op.v)),
                          LAMBDA r : parse_expression_opp_rhs(r.lx, r.val, op))
                 ELSE Ok(next.lx, rhs)))

\* The outer loop: one iteration per operator taken at this level.
parse_expression_opp(lx, lhs, min_precedence) ==
  Try(peek_pos(lx),
      LAMBDA next :
        With(as_op(next.token),
             LAMBDA op :
               IF is_some(op) /\ get_precedence(op.v) >= min_precedence
                 THEN Try(take_pos(next.lx),
                          LAMBDA taken :
                            Try(parse_expression_token(taken.lx),
                                LAMBDA first :
                                  Try(parse_expression_opp_rhs(first.lx, first.val, op.v),
                                      LAMBDA rhs :
                                        parse_expression_opp(rhs.lx,
                                          BinaryOp(next.pos, op.v, lhs, rhs.val),
                                          min_precedence))))
                 ELSE Ok(next.lx, lhs)))

\* What parse_assignment and parse_declaration share: `= EXPR ;`, giving the
\* expression.
parse_initializer(lx) ==
  Try(take_of(lx, "Equals"),
      LAMBDA eq :
        Try(parse_expression(eq.lx),
            LAMBDA value :
              Try(take_of(value.lx, "Semicolon"),
                  LAMBDA semi : Ok(semi.lx, value.val))))

parse_assignment(lx) ==
  Try(take_identifier(lx),
      LAMBDA local :
        Try(parse_initializer(local.lx),
            LAMBDA value :
              Ok(value.lx, [k |-> "AssignLocal", pos |-> local.val.pos,
                            local |-> local.val, value |-> value.val])))

\* `mut`, if it is next: the value is is_mutable.
parse_mut(lx) ==
  Try(peek_pos(lx),
      LAMBDA m :
        IF m.token.kind = "Mut"
          THEN Try(take_pos(m.lx), LAMBDA t : Ok(t.lx, TRUE))
          ELSE Ok(m.lx, FALSE))

\* `: TYPE`, if a colon is next: the value is initial_type.
parse_annotation(lx) ==
  Try(peek_pos(lx),
      LAMBDA c :
        IF c.token.kind = "Colon"
          THEN Try(take_pos(c.lx),
                   LAMBDA t :
                     Try(take_identifier(t.lx), LAMBDA ty : Ok(ty.lx, Some(ty.val))))
          ELSE Ok(c.lx, None))

parse_declaration(lx) ==
  Try(take_of(lx, "Let"),
      LAMBDA let_ :
        Try(parse_mut(let_.lx),
            LAMBDA is_mutable :
              Try(take_identifier(is_mutable.lx),
                  LAMBDA name :
                    Try(parse_annotation(name.lx),
                        LAMBDA initial_type :
                          Try(parse_initializer(initial_type.lx),
                              LAMBDA value :
                                Ok(value.lx,
                                   [k |-> "DeclareVariable", pos |-> let_.pos,
                                    name |-> name.val,
                                    is_mutable |-> is_mutable.val,
                                    initial_type |-> initial_type.val,
                                    initial_value |-> value.val]))))))

RECURSIVE parse_statement(_)
RECURSIVE parse_block_inner(_, _)

\* The loop of parse_block: statements until `}`.
parse_block_inner(lx, inner) ==
  Try(peek_pos(lx),
      LAMBDA next :
        IF next.token.kind = "RBrace"
          THEN Try(take_pos(next.lx), LAMBDA t : Ok(t.lx, inner))
          ELSE Try(parse_statement(next.lx),
                   LAMBDA s : parse_block_inner(s.lx, Append(inner, s.val))))

parse_block(lx) ==
  Try(take_of(lx, "LBrace"),
      LAMBDA open :
        Try(parse_block_inner(open.lx, <<>>),
            LAMBDA inner :
              Ok(inner.lx, [k |-> "Block", pos |-> open.pos, inner |-> inner.val])))

parse_statement(lx) ==
  Try(peek_pos(lx),
      LAMBDA first :
        CASE first.token.kind = "Let" -> parse_declaration(first.lx)
          [] first.token.kind = "LBrace" -> parse_block(first.lx)
          [] first.token.kind = "Identifier" -> parse_assignment(first.lx)
          [] OTHER -> Err(Panic("parse_statement: unimplemented")))

RECURSIVE parse_program_loop(_, _)
\* The loop of parse_program: statements until EOF.
parse_program_loop(lx, statements) ==
  Try(peek_pos(lx),
      LAMBDA next :
        IF next.token.kind = "EOF" THEN Ok(next.lx, statements)
        ELSE Try(parse_statement(next.lx),
                 LAMBDA s : parse_program_loop(s.lx, Append(statements, s.val))))

parse_program(lx) == parse_program_loop(lx, <<>>)

\* ---------------------------------------------------------- SemanticContext
\* scopes and locals are functions from ids (0, 1, ...) to records.
\* hash_order is the order in which the `locals` HashMap yields its keys:
\* the bucket order its RandomState gives them, fixed when the map is made.

SemanticContext_new(hash_order) ==
  [scopes |-> <<>>, locals |-> <<>>, next_scope_id |-> 0, next_local_id |-> 0,
   hash_order |-> hash_order]

Primitive(p) == [t |-> "Primitive", p |-> p]

SemanticErrorCtx(pos, error, name) ==
  [type |-> "SemanticErrorCtx", pos |-> pos, error |-> error, name |-> name]

\* declare_local, were the id counter left as it is.
declare_local_reusing(ctx, scope_id, name, initial_type) ==
  LET id == ctx.next_local_id
  IN [ctx EXCEPT
        !.scopes[scope_id].locals = @ \cup {id},
        !.locals = (id :> [id |-> id, scope_id |-> scope_id, name |-> name,
                           initial_type |-> initial_type]) @@ @]

\* Gives the context with the local added; the new id is the old next_local_id.
declare_local(ctx, scope_id, name, initial_type) ==
  LET id == ctx.next_local_id
  IN [ctx EXCEPT
        !.next_local_id = @ + 1,
        !.scopes[scope_id].locals = @ \cup {id},
        !.locals = (id :> [id |-> id, scope_id |-> scope_id, name |-> name,
                           initial_type |-> initial_type]) @@ @]

\* declare_scope, were the parent left out of the new scope.
declare_scope_orphan(ctx, parent) ==
  LET id == ctx.next_scope_id
  IN [ctx EXCEPT
        !.next_scope_id = @ + 1,
        !.scopes = (id :> [id |-> id, parent |-> None, locals |-> {}]) @@ @]

\* Gives the context with the scope added; the new id is the old next_scope_id.
declare_scope(ctx, parent) ==
  LET id == ctx.next_scope_id
  IN [ctx EXCEPT
        !.next_scope_id = @ + 1,
        !.scopes = (id :> [id |-> id, parent |-> parent, locals |-> {}]) @@ @]

resolve_named_type(identifier) ==
  IF identifier.name = ty_i32 THEN [ok |-> TRUE, val |-> Primitive("I32")]
  ELSE IF identifier.name = ty_bool THEN [ok |-> TRUE, val |-> Primitive("Bool")]
  ELSE Err(SemanticErrorCtx(identifier.pos, "UnknownType", identifier.name))

resolve_scope(ctx, scope_id) == ctx.scopes[scope_id]

\* is_local_within_scope, were the walk over the scopes left out.
is_local_within_scope_anywhere(ctx, scope_id, local_id) ==
  local_id \in DOMAIN ctx.locals

RECURSIVE is_local_within_scope(_, _, _)
is_local_within_scope(ctx, scope_id, local_id) ==
  LET local == ctx.locals[local_id]
      scope == resolve_scope(ctx, scope_id)
  IN IF scope.id = local.scope_id THEN TRUE
     ELSE IF is_some(scope.parent)
       THEN is_local_within_scope(ctx, scope.parent.v, local_id)
     ELSE FALSE

\* HashMap::values(): the stored locals in bucket order.
locals_values(ctx) ==
  LET keys == SelectSeq(ctx.hash_order, LAMBDA id : id \in DOMAIN ctx.locals)
  IN [i \in 1..Len(keys) |-> ctx.locals[keys[i]]]

\* Iterator::find: the first element the predicate accepts.
find_named(values, name) ==
  LET hits == SelectSeq(values, LAMBDA x : x.name = name)
  IN IF hits = <<>> THEN None ELSE Some(Head(hits))

resolve_named_local(ctx, scope_id, name) ==
  LET found == find_named(locals_values(ctx), name)
  IN IF is_some(found) /\ is_local_within_scope(ctx, scope_id, found.v.id)
       THEN Some(found.v.id)
       ELSE None

resolve_local(ctx, scope_id, local_id) ==
  IF local_id \in DOMAIN ctx.locals /\ is_local_within_scope(ctx, scope_id, local_id)
    THEN Some(ctx.locals[local_id])
    ELSE None

\* ---------------------------------------------------------------- Resolver

RECURSIVE transform_expression(_, _, _)
\* transform_expression, were an unknown name reported where the identifier
\* ends.
transform_expression_past_name(ctx, scope_id, expression) ==
  CASE expression.k = "IntegerConstant" -> [ok |-> TRUE, val |-> expression]
    [] expression.k = "Local" ->
         LET found == resolve_named_local(ctx, scope_id, expression.local)
         IN IF is_some(found)
              THEN [ok |-> TRUE, val |-> Local(expression.pos, found.v)]
              ELSE Err(SemanticErrorCtx(expression.pos + Len(expression.local),
                                        "UnknownLocal", expression.local))
    [] expression.k = "UnaryOp" ->
         LET value == transform_expression(ctx, scope_id, expression.arg)
         IN IF ~value.ok THEN value
            ELSE [ok |-> TRUE, val |-> UnaryOp(expression.pos, expression.op, value.val)]
    [] expression.k = "BinaryOp" ->
         LET lhs == transform_expression(ctx, scope_id, expression.lhs)
             rhs == transform_expression(ctx, scope_id, expression.rhs)
         IN IF ~lhs.ok THEN lhs
            ELSE IF ~rhs.ok THEN rhs
            ELSE [ok |-> TRUE,
                  val |-> BinaryOp(expression.pos, expression.op, lhs.val, rhs.val)]

transform_expression(ctx, scope_id, expression) ==
  CASE expression.k = "IntegerConstant" -> [ok |-> TRUE, val |-> expression]
    [] expression.k = "Local" ->
         LET found == resolve_named_local(ctx, scope_id, expression.local)
         IN IF is_some(found)
              THEN [ok |-> TRUE, val |-> Local(expression.pos, found.v)]
              ELSE Err(SemanticErrorCtx(expression.pos, "UnknownLocal", expression.local))
    [] expression.k = "UnaryOp" ->
         LET value == transform_expression(ctx, scope_id, expression.arg)
         IN IF ~value.ok THEN value
            ELSE [ok |-> TRUE, val |-> UnaryOp(expression.pos, expression.op, value.val)]
    [] expression.k = "BinaryOp" ->
         LET lhs == transform_expression(ctx, scope_id, expression.lhs)
             rhs == transform_expression(ctx, scope_id, expression.rhs)
         IN IF ~lhs.ok THEN lhs
            ELSE IF ~rhs.ok THEN rhs
            ELSE [ok |-> TRUE,
                  val |-> BinaryOp(expression.pos, expression.op, lhs.val, rhs.val)]

RastAssignLocal(pos, local_id, value) ==
  [k |-> "AssignLocal", pos |-> pos, local_id |-> local_id, value |-> value]

RECURSIVE transform_statement(_, _, _)
RECURSIVE transform_statements(_, _, _, _)

\* Statements in order, threading the context, stopping at the first error:
\* the body of the loops in the Block case and in transform_program.
transform_statements(ctx, scope_id, statements, done) ==
  IF statements = <<>> THEN [ok |-> TRUE, ctx |-> ctx, val |-> done]
  ELSE LET r == transform_statement(ctx, scope_id, Head(statements))
       IN IF ~r.ok THEN r
          ELSE transform_statements(r.ctx, scope_id, Tail(statements), Append(done, r.val))

transform_statement(ctx, scope_id, statement) ==
  CASE statement.k = "Block" ->
         LET ctx1 == declare_scope(ctx, Some(scope_id))
             block_scope == ctx.next_scope_id
             inner == transform_statements(ctx1, block_scope, statement.inner, <<>>)
         IN IF ~inner.ok THEN inner
            ELSE [ok |-> TRUE, ctx |-> inner.ctx,
                  val |-> [k |-> "Block", pos |-> statement.pos,
                           scope_id |-> block_scope, inner |-> inner.val]]
    [] statement.k = "AssignLocal" ->
         LET found == resolve_named_local(ctx, scope_id, statement.local.name)
             value == transform_expression(ctx, scope_id, statement.value)
         IN IF ~is_some(found)
              THEN Err(SemanticErrorCtx(statement.local.pos, "UnknownLocal",
                                        statement.local.name))
            ELSE IF ~value.ok THEN value
            ELSE [ok |-> TRUE, ctx |-> ctx,
                  val |-> RastAssignLocal(statement.local.pos, found.v, value.val)]
    [] statement.k = "DeclareVariable" ->
         LET initial_type ==
               IF is_some(statement.initial_type)
                 THEN resolve_named_type(statement.initial_type.v)
                 ELSE [ok |-> TRUE, val |-> None]
             ty == IF is_some(statement.initial_type)
                     THEN Some(initial_type.val) ELSE None
             local_id == ctx.next_local_id
             ctx1 == declare_local(ctx, scope_id, statement.name.name, ty)
             value == transform_expression(ctx1, scope_id, statement.initial_value)
         IN IF ~initial_type.ok THEN initial_type
            ELSE IF ~value.ok THEN value
            ELSE [ok |-> TRUE, ctx |-> ctx1,
                  val |-> RastAssignLocal(statement.pos, local_id, value.val)]

transform_program(statements, hash_order) ==
  LET fresh == SemanticContext_new(hash_order)
      ctx == declare_scope(fresh, None)
      root_scope == fresh.next_scope_id
  IN transform_statements(ctx, root_scope, statements, <<>>)

\* ------------------------------------------------------------ Type checker

TypeErrorCtx(pos, error) == [type |-> "TypeErrorCtx", pos |-> pos, error |-> error]

\* is_assignable, were every pair of types assignable.
is_assignable_always(a, b) == TRUE

is_assignable(a, b) ==
  IF a.t = "Primitive" /\ b.t = "Primitive" THEN a.p = b.p ELSE FALSE

RECURSIVE resolve_expression(_, _, _)
\* resolve_expression, were Equals typed as the arithmetic operators are.
resolve_expression_with_equals(ctx, scope_id, expression) ==
  CASE expression.k = "IntegerConstant" -> [ok |-> TRUE, val |-> Primitive("I32")]
    [] expression.k = "Local" ->
         LET local == resolve_local(ctx, scope_id, expression.local)
         IN IF ~is_some(local) THEN Err(Panic("resolve_expression: unwrap on None"))
            ELSE IF is_some(local.v.initial_type)
              THEN [ok |-> TRUE, val |-> local.v.initial_type.v]
            ELSE Err(TypeErrorCtx(expression.pos,
                       [e |-> "UntypedLocal", local_id |-> expression.local]))
    [] expression.k = "UnaryOp" ->
         LET x_type == resolve_expression(ctx, scope_id, expression.arg)
         IN IF ~x_type.ok THEN x_type
            ELSE IF expression.op = "Negate" /\ x_type.val = Primitive("I32")
              THEN [ok |-> TRUE, val |-> Primitive("I32")]
            ELSE Err(TypeErrorCtx(expression.pos,
                       [e |-> "InvalidUnaryOpArg", op |-> expression.op, x |-> x_type.val]))
    [] expression.k = "BinaryOp" ->
         LET lhs_type == resolve_expression(ctx, scope_id, expression.lhs)
             rhs_type == resolve_expression(ctx, scope_id, expression.rhs)
         IN IF ~lhs_type.ok THEN lhs_type
            ELSE IF ~rhs_type.ok THEN rhs_type
            ELSE IF /\ lhs_type.val = Primitive("I32")
                    /\ expression.op \in {"Add", "Sub", "Mul", "Equals"}
                    /\ rhs_type.val = Primitive("I32")
              THEN [ok |-> TRUE, val |-> Primitive("I32")]
            ELSE Err(TypeErrorCtx(expression.pos,
                       [e |-> "InvalidBinaryOpArgs", op |-> expression.op,
                        lhs |-> lhs_type.val, rhs |-> rhs_type.val]))

resolve_expression(ctx, scope_id, expression) ==
  CASE expression.k = "IntegerConstant" -> [ok |-> TRUE, val |-> Primitive("I32")]
    [] expression.k = "Local" ->
         LET local == resolve_local(ctx, scope_id, expression.local)
         IN IF ~is_some(local) THEN Err(Panic("resolve_expression: unwrap on None"))
            ELSE IF is_some(local.v.initial_type)
              THEN [ok |-> TRUE, val |-> local.v.initial_type.v]
            ELSE Err(TypeErrorCtx(expression.pos,
                       [e |-> "UntypedLocal", local_id |-> expression.local]))
    [] expression.k = "UnaryOp" ->
         LET x_type == resolve_expression(ctx, scope_id, expression.arg)
         IN IF ~x_type.ok THEN x_type
            ELSE IF expression.op = "Negate" /\ x_type.val = Primitive("I32")
              THEN [ok |-> TRUE, val |-> Primitive("I32")]
            ELSE Err(TypeErrorCtx(expression.pos,
                       [e |-> "InvalidUnaryOpArg", op |-> expression.op, x |-> x_type.val]))
    [] expression.k = "BinaryOp" ->
         LET lhs_type == resolve_expression(ctx, scope_id, expression.lhs)
             rhs_type == resolve_expression(ctx, scope_id, expression.rhs)
         IN IF ~lhs_type.ok THEN lhs_type
            ELSE IF ~rhs_type.ok THEN rhs_type
            ELSE IF /\ lhs_type.val = Primitive("I32")
                    /\ expression.op \in {"Add", "Sub", "Mul"}
                    /\ rhs_type.val = Primitive("I32")
              THEN [ok |-> TRUE, val |-> Primitive("I32")]
            ELSE Err(TypeErrorCtx(expression.pos,
                       [e |-> "InvalidBinaryOpArgs", op |-> expression.op,
                        lhs |-> lhs_type.val, rhs |-> rhs_type.val]))

NotAssignable(target, x) == [e |-> "NotAssignable", target |-> target, x |-> x]

\* A failed check, with the context as the call leaves it (it is changed in
\* place).
Left(err, ctx) == [ok |-> FALSE, err |-> err, ctx |-> ctx]

RECURSIVE visit_statement(_, _, _)
RECURSIVE visit_statements(_, _, _)

\* The loops of the Block case and of visit_program: statements in order,
\* threading the context, stopping at the first error.
visit_statements(ctx, scope_id, statements) ==
  IF statements = <<>> THEN [ok |-> TRUE, ctx |-> ctx]
  ELSE LET r == visit_statement(ctx, scope_id, Head(statements))
       IN IF ~r.ok THEN r ELSE visit_statements(r.ctx, scope_id, Tail(statements))

\* visit_statement, were the type of the value stored whether or not the
\* local has a type.
visit_statement_overwriting(ctx, scope_id, statement) ==
  CASE statement.k = "AssignLocal" ->
         LET value_type == resolve_expression(ctx, scope_id, statement.value)
         IN IF ~value_type.ok
              THEN IF value_type.err.type = "Panic" THEN Left(value_type.err, ctx)
                   ELSE Left(Panic("visit_statement: unwrap on Err"), ctx)
            ELSE [ok |-> TRUE,
                  ctx |-> [ctx EXCEPT !.locals[statement.local_id].initial_type =
                                        Some(value_type.val)]]
    [] statement.k = "Block" ->
         visit_statements(ctx, statement.scope_id, statement.inner)

visit_statement(ctx, scope_id, statement) ==
  CASE statement.k = "AssignLocal" ->
         LET value_type == resolve_expression(ctx, scope_id, statement.value)
             local == resolve_local(ctx, scope_id, statement.local_id)
         IN IF ~value_type.ok
              THEN IF value_type.err.type = "Panic" THEN Left(value_type.err, ctx)
                   ELSE Left(Panic("visit_statement: unwrap on Err"), ctx)
            ELSE IF ~is_some(local)
              THEN Left(Panic("visit_statement: unwrap on None"), ctx)
            ELSE IF ~is_some(local.v.initial_type)
              THEN [ok |-> TRUE,
                    ctx |-> [ctx EXCEPT !.locals[statement.local_id].initial_type =
                                          Some(value_type.val)]]
            ELSE IF ~is_assignable(local.v.initial_type.v, value_type.val)
              THEN Left(TypeErrorCtx(statement.pos,
                          NotAssignable(local.v.initial_type.v, value_type.val)),
                        ctx)
            ELSE [ok |-> TRUE, ctx |-> ctx]
    [] statement.k = "Block" ->
         visit_statements(ctx, statement.scope_id, statement.inner)

visit_program(ctx, program) == visit_statements(ctx, 0, program)

\* -------------------------------------------------------------- Interpreter

I32Max == 2147483647

I32(i) == [t |-> "I32", v |-> i]

RECURSIVE low_halves(_, _, _)
\* The low 32 bits of a decimal numeral as two 16-bit halves, most
\* significant digit first: each step is (hi, lo) * 10 + digit, mod 2^32.
low_halves(digits, hi, lo) ==
  IF digits = <<>> THEN [hi |-> hi, lo |-> lo]
  ELSE low_halves(Tail(digits),
                  (hi * 10 + (lo * 10 + DigitValue(Head(digits))) \div 65536) % 65536,
                  (lo * 10 + DigitValue(Head(digits))) % 65536)

\* `i as i32` of an integer constant's i128: the low 32 bits, read as a
\* signed number.
as_i32(constant) ==
  IF ~IsWide(constant) THEN constant.value
  ELSE With(low_halves(constant.digits, 0, 0),
            LAMBDA h : (IF h.hi >= 32768 THEN h.hi - 65536 ELSE h.hi) * 65536 + h.lo)

I32Min == -I32Max - 1

\* Whether a + b, a - b, a * b or -x leaves the range of i32.
add_overflows(a, b) ==
  \/ b > 0 /\ a > I32Max - b
  \/ b < 0 /\ a < I32Min - b

sub_overflows(a, b) ==
  \/ b < 0 /\ a > I32Max + b
  \/ b > 0 /\ a < I32Min + b

neg_overflows(x) == x = I32Min

mul_overflows(a, b) ==
  IF a = 0 \/ b = 0 THEN FALSE
  ELSE IF a = I32Min THEN b # 1
  ELSE IF b = I32Min THEN a # 1
  ELSE IF a > 0 /\ b > 0 THEN a > I32Max \div b
  ELSE IF a < 0 /\ b < 0 THEN (-a) > I32Max \div (-b)
  ELSE IF a > 0 THEN b < (I32Min + a - 1) \div a
  ELSE a < (I32Min + b - 1) \div b

\* The low 32 bits of a + b, a - b, -x and a * b, read as a signed number.
wrapping_add(a, b) ==
  IF ~add_overflows(a, b) THEN a + b
  ELSE IF b > 0 THEN (a - I32Max - 1) + (b - I32Max - 1)
  ELSE (a + I32Max + 1) + (b + I32Max + 1)

wrapping_sub(a, b) ==
  IF ~sub_overflows(a, b) THEN a - b
  ELSE IF b < 0 THEN (a - I32Max - 1) - (b + I32Max + 1)
  ELSE (a + I32Max + 1) - (b - I32Max - 1)

wrapping_neg(x) == IF neg_overflows(x) THEN x ELSE -x

\* The low 32 bits of a * b from 16-bit halves (a = ah * 2^16 + al), with
\* every partial product inside 32 bits: `low` is al * bl, built from the
\* two bytes of bl, and `high` collects bits 16..31.
wrapping_mul(a, b) ==
  LET ah == a \div 65536
      al == a % 65536
      bh == b \div 65536
      bl == b % 65536
      t1 == al * (bl % 256)
      t2 == al * (bl \div 256)
      low == t1 + (t2 % 256) * 256
      high == ((low \div 65536) + (t2 \div 256) + ((ah * bl) % 65536)
                 + ((al * bh) % 65536)) % 65536
  IN (IF high >= 32768 THEN high - 65536 ELSE high) * 65536 + (low % 65536)

\* An arithmetic result: where it leaves the range of i32, a build with
\* overflow checks panics and one without them wraps.
Arith(overflows, wrapped, overflow_checks, what) ==
  IF overflows /\ overflow_checks THEN Panic(what) ELSE I32(wrapped)

RECURSIVE evaluate(_, _, _)
\* The value, or a Panic record where the code aborts.
evaluate(locals, expression, overflow_checks) ==
  CASE expression.k = "IntegerConstant" -> I32(as_i32(expression))
    [] expression.k = "Local" ->
         IF expression.local \in DOMAIN locals
           THEN locals[expression.local]
           ELSE Panic("evaluate: unwrap on None")
    [] expression.k = "UnaryOp" ->
         LET x == evaluate(locals, expression.arg, overflow_checks)
         IN IF x.t = "Panic" THEN x
            ELSE IF x.t = "I32"
              THEN Arith(neg_overflows(x.v), wrapping_neg(x.v), overflow_checks,
                         "attempt to negate with overflow")
            ELSE Panic("evaluate: panic")
    [] expression.k = "BinaryOp" ->
         LET lhs == evaluate(locals, expression.lhs, overflow_checks)
             rhs == evaluate(locals, expression.rhs, overflow_checks)
         IN IF lhs.t = "Panic" THEN lhs
            ELSE IF rhs.t = "Panic" THEN rhs
            ELSE IF lhs.t = "I32" /\ rhs.t = "I32" /\ expression.op = "Add"
              THEN Arith(add_overflows(lhs.v, rhs.v), wrapping_add(lhs.v, rhs.v),
                         overflow_checks, "attempt to add with overflow")
            ELSE IF lhs.t = "I32" /\ rhs.t = "I32" /\ expression.op = "Sub"
              THEN Arith(sub_overflows(lhs.v, rhs.v), wrapping_sub(lhs.v, rhs.v),
                         overflow_checks, "attempt to subtract with overflow")
            ELSE IF lhs.t = "I32" /\ rhs.t = "I32" /\ expression.op = "Mul"
              THEN Arith(mul_overflows(lhs.v, rhs.v), wrapping_mul(lhs.v, rhs.v),
                         overflow_checks, "attempt to multiply with overflow")
            ELSE Panic("evaluate: unreachable")

RECURSIVE execute(_, _, _)
RECURSIVE execute_all(_, _, _)

\* The loop of the Block case: statements in order; a panic ends it.
execute_all(locals, statements, overflow_checks) ==
  IF statements = <<>> THEN [ok |-> TRUE, locals |-> locals]
  ELSE LET r == execute(locals, Head(statements), overflow_checks)
       IN IF ~r.ok THEN r ELSE execute_all(r.locals, Tail(statements), overflow_checks)

\* execute, were the store to replace the environment by the one entry.
execute_forgetting(locals, statement, overflow_checks) ==
  CASE statement.k = "AssignLocal" ->
         LET rhs == evaluate(locals, statement.value, overflow_checks)
         IN IF rhs.t = "Panic" THEN [ok |-> FALSE, err |-> rhs, locals |-> locals]
            ELSE [ok |-> TRUE, locals |-> (statement.local_id :> rhs)]
    [] statement.k = "Block" -> execute_all(locals, statement.inner, overflow_checks)

execute(locals, statement, overflow_checks) ==
  CASE statement.k = "AssignLocal" ->
         LET rhs == evaluate(locals, statement.value, overflow_checks)
         IN IF rhs.t = "Panic" THEN [ok |-> FALSE, err |-> rhs, locals |-> locals]
            ELSE [ok |-> TRUE, locals |-> (statement.local_id :> rhs) @@ locals]
    [] statement.k = "Block" -> execute_all(locals, statement.inner, overflow_checks)

\* ------------------------------------------------------------ source texts

Join(parts) ==
  Cat([i \in 1..Len(parts) |-> IF i = 1 THEN parts[i] ELSE SP \o parts[i]])

Operands ==
  {[text |-> <<"2">>, value |-> 2], [text |-> <<"3">>, value |-> 3],
   [text |-> <<"4">>, value |-> 4], [text |-> <<"1", "0">>, value |-> 10]}

OpChars == {"+", "-", "*"}

OpOf(ch) == CASE ch = "+" -> "Add" [] ch = "-" -> "Sub" [] ch = "*" -> "Mul"

let_x_eq == <<"l", "e", "t", " ", "x", " ", "=", " ">>

\* `let x = [-]a op1 b;`
Expr2Inputs ==
  [fam : {"expr2"}, neg : BOOLEAN, a : Operands, op1 : OpChars, b : Operands]

\* `let x = [-]a op1 b op2 c;`, with a pair of parentheses around the left
\* two operands, around the right two, or nowhere.
Expr3Inputs ==
  [fam : {"expr3"}, neg : BOOLEAN, paren : {"none", "left", "right"},
   a : Operands, op1 : OpChars, b : Operands, op2 : OpChars, c : Operands]

ExprText(in) ==
  IF in.fam = "expr2"
    THEN Cat(<<IF in.neg THEN <<"-">> ELSE <<>>, in.a.text, SP, <<in.op1>>, SP, in.b.text>>)
    ELSE Cat(<<IF in.neg THEN <<"-">> ELSE <<>>,
               IF in.paren = "left" THEN <<"(">> ELSE <<>>,
               in.a.text, SP, <<in.op1>>, SP,
               IF in.paren = "right" THEN <<"(">> ELSE <<>>,
               in.b.text,
               IF in.paren = "left" THEN <<")">> ELSE <<>>,
               SP, <<in.op2>>, SP, in.c.text,
               IF in.paren = "right" THEN <<")">> ELSE <<>>>>)

\* A statement whose expression is followed by `follow` instead of `;`.
SemiHeads ==
  {let_x_eq, <<"x", " ", "=", " ">>,
   <<"l", "e", "t", " ", "m", "u", "t", " ", "x", ":", " ", "i", "3", "2", " ", "=", " ">>,
   <<"{", " ", "x", "=">>}

SemiExprs == {<<"9">>, <<"1", "0", " ", "-", " ", "3">>, <<"(", "2", "+", "3", ")">>, <<"-", "y">>}

\* What follows the expression: the text, the whitespace before its first
\* token, and the kind of that token.
SemiFollows ==
  {[text |-> <<>>, skip |-> 0, kind |-> "EOF"],
   [text |-> <<" ">>, skip |-> 1, kind |-> "EOF"],
   [text |-> <<" ", "}">>, skip |-> 1, kind |-> "RBrace"],
   [text |-> <<"\n", "l", "e", "t", " ", "y", " ", "=", " ", "1", ";">>,
    skip |-> 1, kind |-> "Let"],
   [text |-> <<" ", " ", "7", ";">>, skip |-> 2, kind |-> "Integer"],
   [text |-> <<")", ";">>, skip |-> 0, kind |-> "RParen"],
   [text |-> <<" ", "=", " ", "1", ";">>, skip |-> 1, kind |-> "Equals"],
   [text |-> <<":">>, skip |-> 0, kind |-> "Colon"],
   [text |-> <<" ", "y", ";">>, skip |-> 1, kind |-> "Identifier"]}

SemiInputs == [fam : {"semi"}, head : SemiHeads, expr : SemiExprs, follow : SemiFollows]

StmtText(s) ==
  CASE s = "D" -> <<"l", "e", "t", " ", "x", " ", "=", " ", "1", ";">>
    [] s = "A" -> <<"x", " ", "=", " ", "3", ";">>
    [] s = "Y" -> <<"l", "e", "t", " ", "y", " ", "=", " ", "x", ";">>
    [] s = "R" -> <<"l", "e", "t", " ", "x", ":", " ", "i", "3", "2", " ", "=", " ", "x", ";">>

StmtNames == {"D", "A", "Y", "R"}

Items == [s : StmtNames, open : BOOLEAN, close : BOOLEAN]

ItemText(it) ==
  Cat(<<IF it.open THEN <<"{", " ">> ELSE <<>>, StmtText(it.s),
        IF it.close THEN <<" ", "}">> ELSE <<>>>>)

\* Up to MaxStmts statements, each optionally opening and/or closing a block.
ScopeInputs ==
  UNION {[fam : {"scope"}, items : [1..n -> Items]] : n \in 0..MaxStmts}

\* Statements over an inferred i32 local, bool locals and a local with no type.
TypedText(s) ==
  CASE s = "LX" -> <<"l", "e", "t", " ", "x", " ", "=", " ", "1", ";">>
    [] s = "LYB" -> <<"l", "e", "t", " ", "y", " ", ":", " ", "b", "o", "o", "l", " ", "=", " ", "x", ";">>
    [] s = "LB" -> <<"l", "e", "t", " ", "b", ":", " ", "b", "o", "o", "l", " ", "=", " ", "b", ";">>
    [] s = "XB" -> <<"x", " ", "=", " ", "b", ";">>
    [] s = "B1" -> <<"b", " ", "=", " ", "1", ";">>
    [] s = "Y1" -> <<"y", " ", "=", " ", "1", ";">>
    [] s = "X2" -> <<"x", " ", "=", " ", "2", ";">>
    [] s = "LU" -> <<"l", "e", "t", " ", "u", " ", "=", " ", "u", ";">>
    [] s = "LN" -> <<"l", "e", "t", " ", "n", " ", "=", " ", "-", "b", ";">>
    [] s = "LM" -> <<"l", "e", "t", " ", "m", " ", "=", " ", "x", " ", "+", " ", "b", ";">>
    [] s = "PX" -> <<"x", " ", "=", " ", ";">>

TypedNames == {"LX", "LYB", "LB", "XB", "B1", "Y1", "X2", "LU", "LN", "LM", "PX"}

\* Up to MaxTypedStmts statements, all at top level.
TypedInputs ==
  UNION {[fam : {"typed"}, items : [1..n -> TypedNames]] : n \in 0..MaxTypedStmts}

BinaryOperators == {"Add", "Sub", "Mul", "Equals"}

\* Operands of type I32 (a constant, the local x) and of type Bool (the
\* local b).
ResolvedOperands == {IntegerConstant(0, 3), Local(0, 0), Local(0, 1)}

ResolvedInputs ==
  [fam : {"resolved"}, target : {0, 1}, op : BinaryOperators,
   lhs : ResolvedOperands, rhs : ResolvedOperands, around : {"none", "negate", "add"}]

ResolvedExpression(in) ==
  LET inner == BinaryOp(0, in.op, in.lhs, in.rhs)
  IN CASE in.around = "none" -> inner
       [] in.around = "negate" -> UnaryOp(0, "Negate", inner)
       [] in.around = "add" -> BinaryOp(0, "Add", IntegerConstant(0, 3), inner)

ResolvedContext ==
  LET root == declare_scope(SemanticContext_new(<<0, 1>>), None)
      with_x == declare_local(root, 0, <<"x">>, Some(Primitive("I32")))
  IN declare_local(with_x, 0, <<"b">>, Some(Primitive("Bool")))

ResolvedProgram(in) ==
  <<RastAssignLocal(0, 0, IntegerConstant(0, 2)),
    RastAssignLocal(0, in.target, ResolvedExpression(in))>>

\* A numeral one above i128::MAX.
TooWide == [I128MaxDigits EXCEPT ![Len(I128MaxDigits)] = "8"]

LexerPieces == {kw_let, <<"x">>, <<"=">>, <<"1", "0">>, <<";">>, TooWide}

\* Up to MaxPieces pieces with a space between them, and a space after the
\* last or not.
LexerInputs ==
  UNION {[fam : {"lexer"}, pieces : [1..n -> LexerPieces], trail : BOOLEAN] :
           n \in 0..MaxPieces}

\* Operands up to i32::MAX.
ArithOperands ==
  {<<"0">>, <<"1">>, <<"2">>, <<"6", "5", "5", "3", "6">>,
   <<"2", "1", "4", "7", "4", "8", "3", "6", "4", "7">>}

\* `let x = [-]a op b;`, alone or before `let y = -x;`, run by a build with
\* overflow checks (debug-assertions) or without them.
ArithInputs ==
  [fam : {"arith"}, neg : BOOLEAN, a : ArithOperands, op : OpChars,
   b : ArithOperands, negated : BOOLEAN, overflow_checks : BOOLEAN]

ArithText(in) ==
  Cat(<<let_x_eq, IF in.neg THEN <<"-">> ELSE <<>>, in.a, SP, <<in.op>>, SP, in.b, <<";">>,
        IF in.negated
          THEN <<" ", "l", "e", "t", " ", "y", " ", "=", " ", "-", "x", ";">>
          ELSE <<>>>>)

\* Literals at and above i32::MAX, up to i128::MAX, and small ones.
WideLiterals ==
  {<<"7">>, <<"0", "0", "7">>, I32MaxDigits,
   <<"2", "1", "4", "7", "4", "8", "3", "6", "4", "8">>,
   <<"4", "2", "9", "4", "9", "6", "7", "2", "9", "6">>,
   <<"4", "2", "9", "4", "9", "6", "7", "3", "0", "3">>,
   <<"9", "9", "9", "9", "9", "9", "9", "9", "9", "9">>,
   I128MaxDigits}

\* `let x = [-]n;`, alone or before `let y = x;`, with its build.
WideInputs ==
  [fam : {"wide"}, neg : BOOLEAN, n : WideLiterals, copied : BOOLEAN,
   overflow_checks : BOOLEAN]

WideText(in) ==
  Cat(<<let_x_eq, IF in.neg THEN <<"-">> ELSE <<>>, in.n, <<";">>,
        IF in.copied
          THEN <<" ", "l", "e", "t", " ", "y", " ", "=", " ", "x", ";">>
          ELSE <<>>>>)

\* Characters of one, two and three bytes.
StreamChars == {"a", " ", "U+00E9", "U+4E47"}

\* The predicates given to take_until and take_while, as the sets of
\* characters they accept.
CharClasses == {{}, {" "}, {"a"}, {"U+00E9", "U+4E47"}, {"a", " ", "U+00E9"}}

CharInputs ==
  UNION {[fam : {"chars"}, text : [1..n -> StreamChars]] : n \in 0..MaxChars}

\* The builds an input is run by: a family whose values can leave i32 names
\* its build; the values of the other families stay far inside i32, where
\* the builds agree.
Builds(in) ==
  IF "overflow_checks" \in DOMAIN in THEN {in.overflow_checks} ELSE BOOLEAN

Render(in) ==
  CASE in.fam \in {"expr2", "expr3"} -> Cat(<<let_x_eq, ExprText(in), <<";">>>>)
    [] in.fam = "semi" -> Cat(<<in.head, in.expr, in.follow.text>>)
    [] in.fam = "scope" -> Join([i \in 1..Len(in.items) |-> ItemText(in.items[i])])
    [] in.fam = "typed" -> Join([i \in 1..Len(in.items) |-> TypedText(in.items[i])])
    [] in.fam = "arith" -> ArithText(in)
    [] in.fam = "wide" -> WideText(in)
    [] in.fam = "chars" -> in.text
    [] in.fam = "lexer" -> Join(in.pieces) \o (IF in.trail THEN SP ELSE <<>>)

\* ------------------------------------------------------------------- state

VARIABLES
  input,     \* how the source text was made
  src,       \* the source text given to eval
  run,       \* 1 for the first eval of src, 2 for the second
  pc,        \* the phase eval is about to run, or "done"
  program,   \* the parsed Program
  ctx,       \* the SemanticContext
  rast,      \* the RastProgram
  next,      \* index of the next top-level statement to execute
  locals,    \* Interpreter.locals
  result,    \* what eval returned, or how it aborted
  prev,      \* the outcome of the first eval, once the second has begun
  lex,       \* a lexer driven directly by peeks and takes, or None
  chars      \* a CharStream driven directly by its operations, or None

vars == <<input, src, run, pc, program, ctx, rast, next, locals, result, prev, lex, chars>>

Running == [tag |-> "Running"]

\* eval returned Ok(value).
ReturnedOk(value) == [tag |-> "Ok", value |-> value]

\* eval returned Err(err).
ReturnedErr(err) == [tag |-> "Err", err |-> err]

Aborted(p) == [tag |-> "Aborted", panic |-> p]

\* How a phase's failure ends eval: a panic aborts, an error is returned.
Failed(err) == IF err.type = "Panic" THEN Aborted(err) ELSE ReturnedErr(err)

Start(in) ==
  /\ input = in
  /\ src = Render(in)
  /\ run = 1
  /\ pc = "parse"
  /\ program = <<>>
  /\ ctx = SemanticContext_new(<<>>)
  /\ rast = <<>>
  /\ next = 1
  /\ locals = <<>>
  /\ result = Running
  /\ prev = None
  /\ lex = None
  /\ chars = None

Init == \E in \in ScopeInputs : Start(in)

InitExpr == \E in \in Expr2Inputs \cup Expr3Inputs \cup SemiInputs : Start(in)

InitTyped == \E in \in TypedInputs : Start(in)

\* visit_program and execute_program entered with a resolved program that
\* was built directly: after `let x: i32 = 2;` and with a local b: bool, one
\* assignment of a binary expression over any BinaryOperator.
StartResolved(in) ==
  /\ input = in
  /\ src = <<>>
  /\ run = 1
  /\ pc = "check"
  /\ program = <<>>
  /\ ctx = ResolvedContext
  /\ rast = ResolvedProgram(in)
  /\ next = 1
  /\ locals = <<>>
  /\ result = Running
  /\ prev = None
  /\ lex = None
  /\ chars = None

InitArith == \E in \in ArithInputs : Start(in)

InitWide == \E in \in WideInputs : Start(in)

InitResolved == \E in \in ResolvedInputs : StartResolved(in)

\* Two lexers over one text and what each has yielded, call by call:
\* `code` is the TokenStream of token_stream.rs (peek_token, take_token),
\* `spec` the TokenStream the parser drives (peek_pos, take_pos), which is
\* left alone once it has failed.
StartLexer(in) ==
  /\ input = in
  /\ src = Render(in)
  /\ run = 1
  /\ pc = "lex"
  /\ program = <<>>
  /\ ctx = SemanticContext_new(<<>>)
  /\ rast = <<>>
  /\ next = 1
  /\ locals = <<>>
  /\ result = Running
  /\ prev = None
  /\ lex = [code |-> TokenStream_new(src), out |-> <<>>,
            spec |-> TokenStream_new(src), out_spec |-> <<>>, failed |-> FALSE]
  /\ chars = None

\* A CharStream over the text, with the bytes its operations have handed
\* out or passed over so far.
StartChars(in) ==
  /\ input = in
  /\ src = Render(in)
  /\ run = 1
  /\ pc = "chars"
  /\ program = <<>>
  /\ ctx = SemanticContext_new(<<>>)
  /\ rast = <<>>
  /\ next = 1
  /\ locals = <<>>
  /\ result = Running
  /\ prev = None
  /\ lex = None
  /\ chars = [cs |-> CharStream_from_text(src), consumed |-> 0, ops |-> <<>>,
              out |-> None, panicked |-> FALSE]

InitChars == \E in \in CharInputs : StartChars(in)

\* The stream after an operation that moved it over `passed` bytes.
Operated(c, op, r, passed) ==
  [cs |-> r.cs, consumed |-> c.consumed + passed, ops |-> Append(c.ops, op),
   out |-> r.out, panicked |-> r.panic]

InitLexer == \E in \in LexerInputs : StartLexer(in)

\* The lexers after one call on each: c is the call's outcome on `code`, s
\* the one on `spec`.
Driven(l, op, c, s) ==
  [code |-> c.ts,
   out |-> Append(l.out, [op |-> op, token |-> c.token, ts |-> c.ts]),
   spec |-> IF s.ok THEN s.lx ELSE l.spec,
   out_spec |-> Append(l.out_spec,
                       IF s.ok THEN [op |-> op, ok |-> TRUE, pos |-> s.pos,
                                     token |-> s.token, lx |-> s.lx]
                       ELSE [op |-> op, ok |-> FALSE, err |-> s.err]),
   failed |-> ~s.ok]

\* The `code` lexer alone, after the `spec` lexer has failed.
DrivenCode(l, op, c) ==
  [l EXCEPT !.code = c.ts,
            !.out = Append(@, [op |-> op, token |-> c.token, ts |-> c.ts])]

RECURSIVE count_declarations(_)
count_declarations(statements) ==
  IF statements = <<>> THEN 0
  ELSE LET s == Head(statements)
       IN (CASE s.k = "DeclareVariable" -> 1
             [] s.k = "Block" -> count_declarations(s.inner)
             [] OTHER -> 0) + count_declarations(Tail(statements))

Permutations_of(S) ==
  {p \in [1..Cardinality(S) -> S] : \A i, j \in 1..Cardinality(S) : p[i] = p[j] => i = j}

\* The bucket orders the locals map can give the ids a program declares.
HashOrders(statements) == Permutations_of(0..(count_declarations(statements) - 1))

\* ----------------------------------------------------------------- actions

Parse ==
  /\ pc = "parse"
  /\ LET r == parse_program(TokenStream_new(src))
     IN IF r.ok
          THEN /\ program' = r.val
               /\ pc' = "resolve"
               /\ UNCHANGED result
          ELSE /\ result' = Failed(r.err)
               /\ pc' = "done"
               /\ UNCHANGED program
  /\ UNCHANGED <<chars, lex, input, src, run, ctx, rast, next, locals, prev>>

Resolve ==
  /\ pc = "resolve"
  /\ \E hash_order \in HashOrders(program) :
       LET r == transform_program(program, hash_order)
       IN IF r.ok
            THEN /\ ctx' = r.ctx
                 /\ rast' = r.val
                 /\ pc' = "check"
                 /\ UNCHANGED result
            ELSE /\ result' = Failed(r.err)
                 /\ pc' = "done"
                 /\ UNCHANGED <<ctx, rast>>
  /\ UNCHANGED <<chars, lex, input, src, run, program, next, locals, prev>>

\* TypeCheck, were the evaluator started whatever visit_program returned.
TypeCheck_unheeded ==
  /\ pc = "check"
  /\ LET r == visit_program(ctx, rast)
     IN /\ ctx' = r.ctx
        /\ pc' = "execute"
        /\ result' = IF r.ok THEN result ELSE Failed(r.err)
  /\ UNCHANGED <<chars, lex, input, src, run, program, rast, next, locals, prev>>

TypeCheck ==
  /\ pc = "check"
  /\ LET r == visit_program(ctx, rast)
     IN IF r.ok
          THEN /\ ctx' = r.ctx
               /\ pc' = "execute"
               /\ UNCHANGED result
          ELSE /\ result' = Failed(r.err)
               /\ pc' = "done"
               /\ ctx' = r.ctx
  /\ UNCHANGED <<chars, lex, input, src, run, program, rast, next, locals, prev>>

\* One iteration of the loop of execute_program.
Execute ==
  /\ pc = "execute"
  /\ next <= Len(rast)
  /\ \E overflow_checks \in Builds(input) :
       LET r == execute(locals, rast[next], overflow_checks)
       IN IF r.ok
            THEN /\ locals' = r.locals
                 /\ next' = next + 1
                 /\ UNCHANGED <<pc, result>>
            ELSE /\ result' = Aborted(r.err)
                 /\ pc' = "done"
                 /\ locals' = r.locals
                 /\ UNCHANGED next
  /\ UNCHANGED <<chars, lex, input, src, run, program, ctx, rast, prev>>

\* execute_program has returned: eval returns Ok(None).
Return ==
  /\ pc = "execute"
  /\ next > Len(rast)
  /\ result' = ReturnedOk(None)
  /\ pc' = "done"
  /\ UNCHANGED <<chars, lex, input, src, run, program, ctx, rast, next, locals, prev>>

\* The caller evaluates the same text once more, with fresh state.
EvalAgain ==
  /\ pc = "done"
  /\ run = 1
  /\ prev' = Some([result |-> result, locals |-> locals])
  /\ run' = 2
  /\ pc' = "parse"
  /\ program' = <<>>
  /\ ctx' = SemanticContext_new(<<>>)
  /\ rast' = <<>>
  /\ next' = 1
  /\ locals' = <<>>
  /\ result' = Running
  /\ UNCHANGED <<chars, lex, input, src>>

Peek ==
  /\ pc = "lex"
  /\ Len(lex.out) < MaxLexerOps
  /\ lex' = IF lex.failed THEN DrivenCode(lex, "peek", peek_token(lex.code))
            ELSE Driven(lex, "peek", peek_token(lex.code), peek_pos(lex.spec))
  /\ UNCHANGED <<chars, input, src, run, pc, program, ctx, rast, next, locals, result, prev>>

Take ==
  /\ pc = "lex"
  /\ Len(lex.out) < MaxLexerOps
  /\ lex' = IF lex.failed THEN DrivenCode(lex, "take", take_token(lex.code))
            ELSE Driven(lex, "take", take_token(lex.code), take_pos(lex.spec))
  /\ UNCHANGED <<chars, input, src, run, pc, program, ctx, rast, next, locals, result, prev>>

CanOperate == pc = "chars" /\ ~chars.panicked /\ Len(chars.ops) < MaxStreamOps

Others == <<lex, input, src, run, pc, program, ctx, rast, next, locals, result, prev>>

CsPeek ==
  /\ CanOperate
  /\ chars' = Operated(chars, "peek", Outcome(chars.cs, CharStream_peek(chars.cs), FALSE), 0)
  /\ UNCHANGED Others

\* advance returns nothing: it passes over the character a peek shows.
CsAdvance ==
  /\ CanOperate
  /\ chars' = Operated(chars, "advance", CharStream_advance(chars.cs),
                       IF is_some(CharStream_peek(chars.cs))
                         THEN len_utf8(CharStream_peek(chars.cs).v) ELSE 0)
  /\ UNCHANGED Others

CsTake ==
  /\ CanOperate
  /\ LET r == CharStream_take(chars.cs)
     IN chars' = Operated(chars, "take", r, IF is_some(r.out) THEN len_utf8(r.out.v) ELSE 0)
  /\ UNCHANGED Others

\* take_until and skip_until, which drops the text.
CsTakeUntil ==
  /\ CanOperate
  /\ \E stop \in CharClasses :
       LET r == CharStream_take_until(chars.cs, stop)
       IN chars' = Operated(chars, "take_until", r, IF r.panic THEN 0 ELSE Len(r.out))
  /\ UNCHANGED Others

\* take_while, skip_while and skip_whitespace.
CsTakeWhile ==
  /\ CanOperate
  /\ \E keep \in CharClasses :
       LET r == CharStream_take_while(chars.cs, keep)
       IN chars' = Operated(chars, "take_while", r, IF r.panic THEN 0 ELSE Len(r.out))
  /\ UNCHANGED Others

NextChars == CsPeek \/ CsAdvance \/ CsTake \/ CsTakeUntil \/ CsTakeWhile

SpecChars == InitChars /\ [][NextChars]_vars

Next == Parse \/ Resolve \/ TypeCheck \/ Execute \/ Return \/ EvalAgain

Spec == Init /\ [][Next]_vars

SpecExpr == InitExpr /\ [][Next]_vars

SpecTyped == InitTyped /\ [][Next]_vars

SpecArith == InitArith /\ [][Next]_vars

SpecWide == InitWide /\ [][Next]_vars

NextLexer == Peek \/ Take

SpecLexer == InitLexer /\ [][NextLexer]_vars

NextResolved == TypeCheck \/ Execute \/ Return

SpecResolved == InitResolved /\ [][NextResolved]_vars

\* ------------------------------------------------ what the grammar intends

RECURSIVE Unplaced(_)
\* An expression with every offset set to 0, to compare shapes.
Unplaced(e) ==
  CASE e.k = "IntegerConstant" -> IntegerConstant(0, e.value)
    [] e.k = "Local" -> Local(0, e.local)
    [] e.k = "UnaryOp" -> UnaryOp(0, e.op, Unplaced(e.arg))
    [] e.k = "BinaryOp" -> BinaryOp(0, e.op, Unplaced(e.lhs), Unplaced(e.rhs))

Lit(operand) == IntegerConstant(0, operand.value)

Neg(e) == UnaryOp(0, "Negate", e)

Bin(op_char, l, r) == BinaryOp(0, OpOf(op_char), l, r)

LevelOf(op_char) == IF op_char = "*" THEN 3 ELSE 2

\* The tree the grammar of the language gives an expression input: `*` above
\* `+` and `-`, equal levels grouped from the left, parentheses one operand,
\* prefix minus on the operand that follows it.
Intended(in) ==
  LET first == IF in.neg THEN Neg(Lit(in.a)) ELSE Lit(in.a)
  IN IF in.fam = "expr2" THEN Bin(in.op1, first, Lit(in.b))
     ELSE IF in.paren = "left"
       THEN Bin(in.op2,
                IF in.neg THEN Neg(Bin(in.op1, Lit(in.a), Lit(in.b)))
                ELSE Bin(in.op1, Lit(in.a), Lit(in.b)),
                Lit(in.c))
     ELSE IF in.paren = "right" \/ LevelOf(in.op2) > LevelOf(in.op1)
       THEN Bin(in.op1, first, Bin(in.op2, Lit(in.b), Lit(in.c)))
     ELSE Bin(in.op2, Bin(in.op1, first, Lit(in.b)), Lit(in.c))

RECURSIVE Meaning(_)
\* The number an expression of integer literals denotes.
Meaning(e) ==
  CASE e.k = "IntegerConstant" -> e.value
    [] e.k = "UnaryOp" -> 0 - Meaning(e.arg)
    [] e.k = "BinaryOp" ->
         CASE e.op = "Add" -> Meaning(e.lhs) + Meaning(e.rhs)
           [] e.op = "Sub" -> Meaning(e.lhs) - Meaning(e.rhs)
           [] e.op = "Mul" -> Meaning(e.lhs) * Meaning(e.rhs)

IsExprInput == input.fam \in {"expr2", "expr3"}

Parsed == pc \in {"resolve", "check", "execute"} \/ (pc = "done" /\ program # <<>>)

\* An expression input is parsed to the intended tree, eval returns normally
\* and x, the only local, is left with the tree's value.
GivesIntended ==
  /\ pc # "parse" => /\ Parsed
                     /\ Len(program) = 1
                     /\ program[1].k = "DeclareVariable"
                     /\ Unplaced(program[1].initial_value) = Intended(input)
  /\ pc = "done" => /\ result = ReturnedOk(None)
                    /\ locals = (0 :> I32(Meaning(Intended(input))))

SourceIs(text) == src = text

Finished == pc = "done"

Chars_let_x_9 == <<"l", "e", "t", " ", "x", " ", "=", " ", "9">>

\* -------------------------------------------------------------- properties

\* C2: operators of equal precedence group from the left: `a op1 b op2 c`
\* with op1, op2 both from {+, -} or both `*` parses to
\* BinaryOp(op2, BinaryOp(op1, a, b), c), and `let x = 10 - 3 - 2;` leaves x = 5.
C2_LeftAssociative ==
  (input.fam = "expr3" /\ input.paren = "none" /\ LevelOf(input.op1) = LevelOf(input.op2))
    => GivesIntended

\* C3: `*` binds tighter than `+` and `-` on either side: `a + b * c` parses
\* as a + (b * c), `a * b + c` as (a * b) + c, and `let x = 2 + 3 * 4;`
\* leaves x = 14.
C3_MulBindsTighter ==
  (input.fam = "expr3" /\ input.paren = "none" /\ LevelOf(input.op1) # LevelOf(input.op2))
    => GivesIntended

C3_Witness ==
  /\ SourceIs(let_x_eq \o <<"2", " ", "+", " ", "3", " ", "*", " ", "4", ";">>)
  /\ Finished
  /\ locals = (0 :> I32(14))

\* C4: a parenthesized sub-expression is one operand of the operators around
\* it, whatever their precedence and on either side: `let x = (2 + 3) * 4;`
\* and `let x = 4 * (2 + 3);` leave x = 20.
C4_ParenthesesGroup ==
  (input.fam = "expr3" /\ input.paren # "none") => GivesIntended

C4_Witness ==
  /\ SourceIs(let_x_eq \o <<"(", "2", " ", "+", " ", "3", ")", " ", "*", " ", "4", ";">>)
  /\ Finished
  /\ locals = (0 :> I32(20))

RECURSIVE Leftmost(_)
\* The operand an expression's text begins with.
Leftmost(e) == IF e.k = "BinaryOp" THEN Leftmost(e.lhs) ELSE e

\* C5: prefix `-` applies to the primary that follows it and to nothing more:
\* `-a op b` parses as BinaryOp(op, UnaryOp(Negate, a), b), the negated
\* operand of a longer expression is the first primary alone, and
\* `let x = -2 + 3;` leaves x = 1.
C5_NegateBindsTightest ==
  /\ (input.fam = "expr2" /\ input.neg) => GivesIntended
  /\ (input.fam = "expr3" /\ input.neg /\ pc # "parse") =>
       /\ Parsed
       /\ Leftmost(Unplaced(program[1].initial_value)) = Leftmost(Intended(input))

C5_Witness ==
  /\ SourceIs(let_x_eq \o <<"-", "2", " ", "+", " ", "3", ";">>)
  /\ Finished
  /\ locals = (0 :> I32(1))

\* C6: a declaration or assignment whose expression is not followed by `;`
\* fails with UnexpectedToken{expected = [Semicolon], was = the kind of the
\* token found} at that token's byte offset; at the end of the input the
\* token is EOF and the offset the length of the source.
C6_MissingSemicolon ==
  (input.fam = "semi" /\ pc # "parse") =>
    /\ pc = "done"
    /\ result = ReturnedErr(
         UnexpectedToken(Len(input.head) + Len(input.expr) + input.follow.skip,
                         <<"Semicolon">>, input.follow.kind))
    /\ input.follow.kind = "EOF" => result.err.pos = Len(src)

C6_Witness ==
  /\ SourceIs(Chars_let_x_9)
  /\ Finished
  /\ result = ReturnedErr(UnexpectedToken(9, <<"Semicolon">>, "EOF"))

\* ------------------------------------------- scoping inputs, read as blocks

Count(S) == Cardinality(S)

\* The nesting depth statement i of a scoping input runs at.
DepthAt(items, i) ==
  Count({j \in 1..i : items[j].open}) - Count({j \in 1..(i - 1) : items[j].close})

DepthAfter(items, i) == DepthAt(items, i) - (IF items[i].close THEN 1 ELSE 0)

Balanced(items) ==
  /\ \A i \in 1..Len(items) : DepthAfter(items, i) >= 0
  /\ Len(items) > 0 => DepthAfter(items, Len(items)) = 0

\* The block (or top level) statement j is in is not yet closed at statement i.
StillOpen(items, j, i) ==
  \A k \in j..(i - 1) : DepthAfter(items, k) >= DepthAt(items, j)

DeclaresX(it) == it.s \in {"D", "R"}

\* `x = 3;` and `let y = x;` use an x declared elsewhere.
UsesX(it) == it.s \in {"A", "Y"}

VisibleDeclarations(items, i) ==
  {j \in 1..(i - 1) : DeclaresX(items[j]) /\ StillOpen(items, j, i)}

ClosedDeclarations(items, i) ==
  {j \in 1..(i - 1) : DeclaresX(items[j]) /\ ~StillOpen(items, j, i)}

NameX == <<"x">>

IsUnknownLocalX(r) ==
  /\ r.tag = "Err"
  /\ r.err.type = "SemanticErrorCtx"
  /\ r.err.error = "UnknownLocal"
  /\ r.err.name = NameX

RECURSIVE Enclosing(_, _)
\* A scope and the scopes around it.
Enclosing(c, scope_id) ==
  {scope_id} \cup (IF is_some(c.scopes[scope_id].parent)
                     THEN Enclosing(c, c.scopes[scope_id].parent.v) ELSE {})

VisibleLocals(c, scope_id, name) ==
  {l \in DOMAIN c.locals :
     c.locals[l].name = name /\ c.locals[l].scope_id \in Enclosing(c, scope_id)}

\* The innermost scope around scope_id that holds a local of the name, and
\* in it the local declared last.
Nearest(c, scope_id, name) ==
  LET vis == VisibleLocals(c, scope_id, name)
      inner == CHOOSE sc \in {c.locals[l].scope_id : l \in vis} :
                 \A l \in vis : sc \in Enclosing(c, c.locals[l].scope_id)
      there == {l \in vis : c.locals[l].scope_id = inner}
  IN CHOOSE l \in there : \A m \in there : m <= l

Names == {<<"x">>, <<"y">>}

\* C1: evaluation never reads a local that has no environment entry: no
\* accepted program makes the evaluator look up a LocalId before an
\* AssignLocal to it has completed.
C1_NeverReadsUnassigned ==
  result # Aborted(Panic("evaluate: unwrap on None"))

\* C7: a local declared inside a block is not resolvable after the block:
\* with no declaration of the name in the scope or around it, lookup finds
\* nothing, and a program that uses the name there fails with UnknownLocal.
C7_BlockLocalsEndWithBlock ==
  /\ pc = "check" =>
       \A sc \in DOMAIN ctx.scopes : \A n \in Names :
         VisibleLocals(ctx, sc, n) = {} => resolve_named_local(ctx, sc, n) = None
  /\ (/\ input.fam = "scope"
      /\ Balanced(input.items)
      /\ \E i \in 1..Len(input.items) :
           /\ UsesX(input.items[i])
           /\ VisibleDeclarations(input.items, i) = {}
           /\ ClosedDeclarations(input.items, i) # {})
     => /\ pc \notin {"check", "execute"}
        /\ pc = "done" => IsUnknownLocalX(result)

C7_Witness ==
  /\ SourceIs(Join(<<<<"{">>, StmtText("D"), <<"}">>, StmtText("A")>>))
  /\ Finished
  /\ result = ReturnedErr(SemanticErrorCtx(15, "UnknownLocal", NameX))

\* C8: with more than one local of the name visible from a scope,
\* resolve_named_local gives the nearest: the one in the innermost scope,
\* and in that scope the one declared last.
C8_NearestWins ==
  pc = "check" =>
    \A sc \in DOMAIN ctx.scopes : \A n \in Names :
      Count(VisibleLocals(ctx, sc, n)) > 1 =>
        resolve_named_local(ctx, sc, n) = Some(Nearest(ctx, sc, n))

\* C9: lookup fails with UnknownLocal only when no local of the name is
\* declared in the scope or around it: a program ends with UnknownLocal only
\* if it uses x where no declaration of x is visible.
C9_UnknownOnlyWhenNoneVisible ==
  (input.fam = "scope" /\ pc = "done" /\ IsUnknownLocalX(result)) =>
    \E i \in 1..Len(input.items) :
      UsesX(input.items[i]) /\ VisibleDeclarations(input.items, i) = {}

\* C10: two runs of eval on the same text end in the same outcome: the same
\* error, or the same final environment.
C10_Deterministic ==
  (run = 2 /\ pc = "done") => prev = Some([result |-> result, locals |-> locals])

\* ------------------------------------------------- properties of the types

\* The context the type checker holds when it comes to top-level statement i.
CheckedBefore(i) == visit_statements(ctx, 0, SubSeq(rast, 1, i - 1))

\* C11: a statement whose right-hand side has a type other than the one
\* already fixed for its target fails the check with NotAssignable{target =
\* the fixed type, x = the right-hand type} at the statement's offset, and
\* the context is left as it was before the statement.
C11_FixedTypeRejectsOthers ==
  pc = "check" =>
    \A i \in 1..Len(rast) :
      LET before == CheckedBefore(i)
      IN (before.ok /\ rast[i].k = "AssignLocal") =>
           LET value_type == resolve_expression(before.ctx, 0, rast[i].value)
               fixed == before.ctx.locals[rast[i].local_id].initial_type
           IN (value_type.ok /\ is_some(fixed) /\ fixed.v # value_type.val) =>
                visit_program(ctx, rast) =
                  Left(TypeErrorCtx(rast[i].pos, NotAssignable(fixed.v, value_type.val)),
                       before.ctx)

C11_Witness ==
  /\ SourceIs(Join(<<TypedText("LX"), TypedText("LYB")>>))
  /\ Finished
  /\ result = ReturnedErr(TypeErrorCtx(11, NotAssignable(Primitive("Bool"), Primitive("I32"))))
  /\ ctx.locals[0].initial_type = Some(Primitive("I32"))
  /\ ctx.locals[1].initial_type = Some(Primitive("Bool"))

\* The name a statement of the typed programs declares, if any.
TypedDeclares(s) ==
  CASE s = "LX" -> Some(<<"x">>) [] s = "LYB" -> Some(<<"y">>)
    [] s = "LB" -> Some(<<"b">>) [] s = "LU" -> Some(<<"u">>)
    [] s = "LN" -> Some(<<"n">>) [] s = "LM" -> Some(<<"m">>)
    [] OTHER -> None

Use(name, col) == [name |-> name, col |-> col]

\* The names a statement uses, in the order the resolver meets them, each
\* with the offset of the identifier from the start of the statement.
TypedUses(s) ==
  CASE s = "LYB" -> <<Use(<<"x">>, 15)>>
    [] s = "LB" -> <<Use(<<"b">>, 14)>>
    [] s = "XB" -> <<Use(<<"x">>, 0), Use(<<"b">>, 4)>>
    [] s = "B1" -> <<Use(<<"b">>, 0)>>
    [] s = "Y1" -> <<Use(<<"y">>, 0)>>
    [] s = "X2" -> <<Use(<<"x">>, 0)>>
    [] s = "LU" -> <<Use(<<"u">>, 8)>>
    [] s = "LN" -> <<Use(<<"b">>, 9)>>
    [] s = "LM" -> <<Use(<<"x">>, 8), Use(<<"b">>, 12)>>
    [] OTHER -> <<>>

TypedOffset(items, i) ==
  IF i = 1 THEN 0
  ELSE Len(Join([j \in 1..(i - 1) |-> TypedText(items[j])])) + 1

\* The names declared when the resolver is in statement i's right-hand side.
TypedDeclared(items, i) == {TypedDeclares(items[j]) : j \in 1..i}

UnknownUses(items) ==
  {u \in (1..Len(items)) \X (1..2) :
     /\ u[2] <= Len(TypedUses(items[u[1]]))
     /\ Some(TypedUses(items[u[1]])[u[2]].name) \notin TypedDeclared(items, u[1])}

FirstUnknownUse(items) ==
  CHOOSE u \in UnknownUses(items) :
    \A v \in UnknownUses(items) : u[1] < v[1] \/ (u[1] = v[1] /\ u[2] <= v[2])

ProbeNames == {<<"x">>, <<"y">>, <<"b">>, <<"q">>}

ProbeOffsets == {0, 4}

\* C12: a name with no visible declaration fails resolution with UnknownLocal
\* carrying the name and the offset of the identifier, as an assignment
\* target and as a reference alike; in a program the first such use is the
\* error eval returns.
C12_UnknownNameFails ==
  /\ pc = "check" =>
       \A n \in ProbeNames : \A p \in ProbeOffsets :
         VisibleLocals(ctx, 0, n) = {} =>
           /\ transform_statement(ctx, 0,
                [k |-> "AssignLocal", pos |-> p, local |-> [pos |-> p, name |-> n],
                 value |-> IntegerConstant(p + Len(n) + 3, 1)])
                = Err(SemanticErrorCtx(p, "UnknownLocal", n))
           /\ transform_expression(ctx, 0, Local(p, n))
                = Err(SemanticErrorCtx(p, "UnknownLocal", n))
  /\ (/\ input.fam = "typed"
      /\ \A i \in 1..Len(input.items) : input.items[i] # "PX"
      /\ UnknownUses(input.items) # {})
     => /\ pc \notin {"check", "execute"}
        /\ pc = "done" =>
             LET u == FirstUnknownUse(input.items)
                 use == TypedUses(input.items[u[1]])[u[2]]
             IN result = ReturnedErr(SemanticErrorCtx(
                           TypedOffset(input.items, u[1]) + use.col,
                           "UnknownLocal", use.name))

C12_Witness ==
  /\ SourceIs(TypedText("Y1"))
  /\ Finished
  /\ result = ReturnedErr(SemanticErrorCtx(0, "UnknownLocal", <<"y">>))

\* ------------------------------------------------ properties of the phases

\* C13: parse_program always ends by returning a Program or a ParseError: a
\* token that cannot start a statement is reported as UnexpectedToken, and
\* parsing never aborts.
C13_ParsingNeverAborts ==
  result # Aborted(Panic("parse_statement: unimplemented"))

\* C14: a type failure inside the right-hand expression of an assignment is
\* returned by visit_program as an Err(TypeErrorCtx); the check never ends by
\* aborting instead.
C14_TypeFailuresAreReturned ==
  result # Aborted(Panic("visit_statement: unwrap on Err"))

NothingResolved == ctx = SemanticContext_new(<<>>) /\ rast = <<>>

NothingExecuted == locals = <<>> /\ next = 1

\* The error of the first phase that fails on the source text, under some
\* order of the locals map.
IsFirstFailure(err) ==
  LET parsed == parse_program(TokenStream_new(src))
  IN IF ~parsed.ok THEN err = parsed.err
     ELSE \E hash_order \in HashOrders(parsed.val) :
            LET resolved == transform_program(parsed.val, hash_order)
            IN IF ~resolved.ok THEN err = resolved.err
               ELSE LET checked == visit_program(resolved.ctx, resolved.val)
                    IN ~checked.ok /\ err = checked.err

\* C15: eval runs parse, resolve, type-check, evaluate in that order, each
\* only after the ones before it have succeeded; the first failing phase's
\* error is what eval returns, and no later phase runs after a failure.
C15_PhasesShortCircuit ==
  /\ pc = "parse" => NothingResolved /\ NothingExecuted /\ result = Running
  /\ pc = "resolve" =>
       /\ LET parsed == parse_program(TokenStream_new(src))
          IN parsed.ok /\ parsed.val = program
       /\ NothingResolved /\ NothingExecuted /\ result = Running
  /\ pc = "check" =>
       /\ transform_program(program, ctx.hash_order) = [ok |-> TRUE, ctx |-> ctx, val |-> rast]
       /\ NothingExecuted /\ result = Running
  /\ pc = "execute" =>
       /\ transform_program(program, ctx.hash_order).ok
       /\ visit_program(ctx, rast).ok
       /\ result = Running
  /\ result.tag = "Err" =>
       /\ pc = "done"
       /\ NothingExecuted
       /\ IsFirstFailure(result.err)
  /\ result.tag = "Ok" =>
       /\ pc = "done"
       /\ visit_program(ctx, rast).ok
       /\ next = Len(rast) + 1

C15_Witness ==
  /\ SourceIs(Join(<<TypedText("LB"), TypedText("B1"), TypedText("LX")>>))
  /\ Finished
  /\ result = ReturnedErr(TypeErrorCtx(17, NotAssignable(Primitive("Bool"), Primitive("I32"))))
  /\ NothingExecuted

\* ------------------------------------------- properties of resolved programs

RECURSIVE HasEquals(_)
HasEquals(e) ==
  CASE e.k = "BinaryOp" -> e.op = "Equals" \/ HasEquals(e.lhs) \/ HasEquals(e.rhs)
    [] e.k = "UnaryOp" -> HasEquals(e.arg)
    [] OTHER -> FALSE

\* C16: a binary expression with Equals is rejected by the type checker
\* whatever the types of its operands, so none reaches the evaluator.
C16_EqualsNeverTyped ==
  (input.fam = "resolved" /\ HasEquals(rast[2].value)) =>
    /\ ~resolve_expression(ctx, 0, rast[2].value).ok
    /\ ~resolve_expression(ctx, 0, BinaryOp(0, input.op, input.lhs, input.rhs)).ok
    /\ ~visit_program(ctx, rast).ok
    /\ pc # "execute"
    /\ NothingExecuted
    /\ result.tag # "Ok"

C16_Witness ==
  /\ input.fam = "resolved" /\ input.op = "Equals" /\ input.around = "none"
  /\ input.lhs = Local(0, 0) /\ input.rhs = IntegerConstant(0, 3) /\ input.target = 0
  /\ Finished
  /\ result.tag = "Aborted"
  /\ NothingExecuted

\* --------------------------------------------------- properties of offsets

RECURSIVE FirstOffset(_)
\* The offset of the first token a parsed expression without parentheses
\* covers: that of its leftmost operand.
FirstOffset(e) == IF e.k = "BinaryOp" THEN FirstOffset(e.lhs) ELSE e.pos

RECURSIVE WellPlaced(_)
\* Every node of the expression carries the offset of its first token.
WellPlaced(e) ==
  CASE e.k = "IntegerConstant" -> is_digit(src[e.pos + 1])
    [] e.k = "Local" -> is_valid_identifier_first(src[e.pos + 1])
    [] e.k = "UnaryOp" -> src[e.pos + 1] = "-" /\ WellPlaced(e.arg)
    [] e.k = "BinaryOp" ->
         e.pos = FirstOffset(e.lhs) /\ WellPlaced(e.lhs) /\ WellPlaced(e.rhs)

\* C17: every node the parser produces carries the offset of the first token
\* of the text it covers; a BinaryOp node that of its left operand's first
\* token.
C17_NodesCarryFirstOffset ==
  (/\ input.fam = "expr2" \/ (input.fam = "expr3" /\ input.paren = "none")
   /\ pc = "resolve")
  => /\ program[1].pos = 0
     /\ WellPlaced(program[1].initial_value)

\* The `code` lexer before call i + 1 (so after call i).
CodeAfter(i) == IF i = 0 THEN TokenStream_new(src) ELSE lex.out[i].ts

\* The `spec` lexer after call i.
SpecAfter(i) == IF i = 0 THEN TokenStream_new(src) ELSE lex.out_spec[i].lx

AtEnd(stream) == stream.off >= Len(stream.full)

\* Nothing is left to lex: the stream is at its end and no token is cached.
Exhausted(ts) == AtEnd(ts.stream) /\ ~is_some(ts.lookahead)

\* The same for the lexer whose end of input is a token: the stream is at
\* its end and the cache is empty or holds that token.
EndOfInput == [pos |-> Len(src), token |-> Tok("EOF")]

ExhaustedSpec(lx) == AtEnd(lx.stream) /\ lx.lookahead \in {None, Some(EndOfInput)}

RECURSIVE TakesOnly(_, _)
\* What n successive take_token calls yield, with no peek between them.
TakesOnly(ts, n) ==
  IF n = 0 THEN <<>>
  ELSE With(take_token(ts), LAMBDA r : <<r.token>> \o TakesOnly(r.ts, n - 1))

IsTake(call) == call.op = "take"

\* What the takes among the calls made so far have yielded, in order.
Taken == [i \in 1..Len(SelectSeq(lex.out, IsTake)) |-> SelectSeq(lex.out, IsTake)[i].token]

\* Whether call i and the call after it agree, when call i is a peek.
PeekKept(i) == lex.out[i].op = "peek" => lex.out[i + 1].token = lex.out[i].token

\* C19: peek_token does not consume: a peek and the call after it yield the
\* same token, a take leaves the lookahead empty, and the takes yield what
\* they would with no peek made in between.
C19_PeekDoesNotConsume ==
  pc = "lex" =>
    /\ \A i \in 1..(Len(lex.out) - 1) : PeekKept(i)
    /\ \A i \in 1..Len(lex.out) : IsTake(lex.out[i]) => lex.out[i].ts.lookahead = None
    /\ Taken = TakesOnly(TokenStream_new(src), Len(Taken))

\* The same, for texts whose numerals all parse.
C19_PeekKeepsParsedTokens ==
  pc = "lex" /\ (\A i \in 1..Len(input.pieces) : input.pieces[i] # TooWide) =>
    C19_PeekDoesNotConsume

\* peek_pos and take_pos, up to the first lexer error: a peek and the call
\* after it yield the same token at the same offset, and a take leaves the
\* cache empty.
C19_PeekPosDoesNotConsume ==
  pc = "lex" =>
    /\ \A i \in 1..(Len(lex.out_spec) - 1) :
         lex.out_spec[i].op = "peek" /\ lex.out_spec[i + 1].ok =>
           /\ lex.out_spec[i + 1].token = lex.out_spec[i].token
           /\ lex.out_spec[i + 1].pos = lex.out_spec[i].pos
    /\ \A i \in 1..Len(lex.out_spec) :
         IsTake(lex.out_spec[i]) /\ lex.out_spec[i].ok =>
           lex.out_spec[i].lx.lookahead = None

\* A numeral above i128::MAX, then `x`: the first peek yields None and has
\* consumed the numeral, the second yields the identifier.
C19_PeekConsumed ==
  /\ pc = "lex"
  /\ src = TooWide \o <<" ", "x">>
  /\ Len(lex.out) = 2
  /\ lex.out[1].op = "peek" /\ lex.out[1].token = None
  /\ lex.out[1].ts.stream.off = Len(TooWide)
  /\ lex.out[2].op = "peek"
  /\ lex.out[2].token = Some([kind |-> "Identifier", name |-> <<"x">>])

\* C20: in a program that passed type checking, `+`, `-`, `*` and unary `-`
\* on I32 operands never abort, whatever the operands: eval never ends in
\* an arithmetic-overflow panic.
C20_ArithmeticNeverAborts ==
  result \notin {Aborted(Panic("attempt to add with overflow")),
                 Aborted(Panic("attempt to subtract with overflow")),
                 Aborted(Panic("attempt to multiply with overflow")),
                 Aborted(Panic("attempt to negate with overflow"))}

\* Within the range of i32 every operation of the family completes: an
\* abort happens only in a build with overflow checks.
C20_AbortsOnlyWithChecks ==
  input.fam = "arith" /\ result.tag = "Aborted" => input.overflow_checks

\* `let x = 2147483647 + 1;` in a build with overflow checks: type checking
\* passed and the addition aborted.
C20_AddAborted ==
  /\ src = Cat(<<let_x_eq, <<"2", "1", "4", "7", "4", "8", "3", "6", "4", "7">>,
                 <<" ", "+", " ", "1", ";">>>>)
  /\ input.overflow_checks
  /\ pc = "done"
  /\ result = Aborted(Panic("attempt to add with overflow"))
  /\ locals = <<>>

\* The same text in a build without them: x is i32::MIN and eval returned.
C20_AddWrapped ==
  /\ src = Cat(<<let_x_eq, <<"2", "1", "4", "7", "4", "8", "3", "6", "4", "7">>,
                 <<" ", "+", " ", "1", ";">>>>)
  /\ ~input.overflow_checks
  /\ pc = "done"
  /\ result = ReturnedOk(None)
  /\ locals[0] = I32(I32Min)

RECURSIVE Decimal(_)
\* The decimal digits of a natural number.
Decimal(n) ==
  IF n < 10 THEN <<Head(SelectSeq(<<"0", "1", "2", "3", "4", "5", "6", "7", "8", "9">>,
                                  LAMBDA d : DigitValue(d) = n))>>
  ELSE Decimal(n \div 10) \o Decimal(n % 10)

\* Whether `let x = n;` has been executed in the current eval.
LiteralStored == input.fam = "wide" /\ ~input.neg /\ pc \in {"execute", "done"} /\ next > 1

\* C21: evaluating an integer literal yields I32(n) with n the number the
\* literal denotes, for every literal the lexer accepts: after `let x = n;`
\* the value of x is n.
C21_LiteralKeepsItsValue ==
  LiteralStored =>
    /\ locals[0].t = "I32"
    /\ locals[0].v >= 0
    /\ Decimal(locals[0].v) = strip_zeros(input.n)

\* The same, for the literals up to i32::MAX.
C21_NarrowLiteralKeepsItsValue ==
  LiteralStored /\ fits_i32(input.n) =>
    locals[0].t = "I32" /\ locals[0].v >= 0 /\ Decimal(locals[0].v) = strip_zeros(input.n)

\* `let x = 2147483648;` passed type checking as I32 and x is i32::MIN.
C21_Truncated ==
  /\ src = Cat(<<let_x_eq, <<"2", "1", "4", "7", "4", "8", "3", "6", "4", "8">>, <<";">>>>)
  /\ pc = "done"
  /\ result = ReturnedOk(None)
  /\ ctx.locals[0].initial_type = Some(Primitive("I32"))
  /\ locals[0] = I32(I32Min)

RECURSIVE BlockParents(_, _, _)
\* The blocks of the statements in the order they open, each with the scope
\* that encloses it in the text: `parents` holds one entry per scope so far,
\* so the next block is scope Len(parents).
BlockParents(statements, enclosing, parents) ==
  IF statements = <<>> THEN parents
  ELSE IF Head(statements).k = "Block"
    THEN BlockParents(Tail(statements), enclosing,
                      BlockParents(Head(statements).inner, Len(parents),
                                   Append(parents, Some(enclosing))))
  ELSE BlockParents(Tail(statements), enclosing, parents)

RECURSIVE ReachesRoot(_, _, _)
\* Whether following parent links from scope i arrives at scope 0 within
\* `fuel` steps.
ReachesRoot(c, i, fuel) ==
  IF i = 0 THEN TRUE
  ELSE IF fuel = 0 \/ ~is_some(c.scopes[i].parent) THEN FALSE
  ELSE ReachesRoot(c, c.scopes[i].parent.v, fuel - 1)

\* The scopes of context c form the tree of the blocks of `statements`.
ScopeTree(c, statements) ==
  LET parents == BlockParents(statements, 0, <<None>>)
  IN /\ c.next_scope_id = Len(parents)
     /\ DOMAIN c.scopes = 0..(c.next_scope_id - 1)
     /\ \A i \in DOMAIN c.scopes :
          /\ c.scopes[i].id = i
          /\ c.scopes[i].parent = parents[i + 1]
          /\ (i = 0) = ~is_some(c.scopes[i].parent)
          /\ i > 0 => c.scopes[i].parent.v \in 0..(i - 1)
          /\ ReachesRoot(c, i, c.next_scope_id)

\* The context after the first k top-level statements have been resolved,
\* if they all resolve.
ResolvedPrefix(k, hash_order) ==
  transform_program(SubSeq(program, 1, k), hash_order)

\* Whether the resolver has run to its end in the current eval.
ResolverSucceeded == pc \in {"check", "execute"} \/ (pc = "done" /\ rast # <<>>)

\* C22: the scopes form a tree after every resolver step: ids are 0..n-1 in
\* order of creation, only scope 0 has no parent, every other scope's parent
\* is the smaller-numbered scope enclosing its block in the text, and parent
\* links lead to the root. Checked on the context the resolver returned and
\* on the one it holds after each top-level statement, for every bucket
\* order.
C22_ScopesFormATree ==
  /\ ResolverSucceeded => ScopeTree(ctx, program)
  /\ pc = "resolve" =>
       \A hash_order \in HashOrders(program) : \A k \in 0..Len(program) :
         ResolvedPrefix(k, hash_order).ok =>
           ScopeTree(ResolvedPrefix(k, hash_order).ctx, SubSeq(program, 1, k))

\* `{ let x = 1; { x = 3; } let y = x; }`: scope 2 inside scope 1 inside
\* the root.
C22_Witness ==
  /\ src = Join(<<ItemText([s |-> "D", open |-> TRUE, close |-> FALSE]),
                  ItemText([s |-> "A", open |-> TRUE, close |-> TRUE]),
                  ItemText([s |-> "Y", open |-> FALSE, close |-> TRUE])>>)
  /\ pc = "check"
  /\ ctx.next_scope_id = 3
  /\ ctx.scopes[0].parent = None
  /\ ctx.scopes[1].parent = Some(0)
  /\ ctx.scopes[2].parent = Some(1)

RECURSIVE Declarations(_, _, _)
\* The declarations of the statements in text order, each with its name and
\* the scope it stands in; acc.scopes counts the scopes opened so far, so
\* the next block is scope acc.scopes.
Declarations(statements, enclosing, acc) ==
  IF statements = <<>> THEN acc
  ELSE LET s == Head(statements)
       IN CASE s.k = "Block" ->
                 Declarations(Tail(statements), enclosing,
                              Declarations(s.inner, acc.scopes,
                                           [acc EXCEPT !.scopes = @ + 1]))
            [] s.k = "DeclareVariable" ->
                 Declarations(Tail(statements), enclosing,
                              [acc EXCEPT !.decls = Append(@, [name |-> s.name.name,
                                                               scope |-> enclosing])])
            [] OTHER -> Declarations(Tail(statements), enclosing, acc)

RECURSIVE DeclaredIds(_, _)
\* The ids the resolved statements give to the declarations, in text order.
DeclaredIds(statements, resolved) ==
  IF statements = <<>> THEN <<>>
  ELSE LET s == Head(statements)
           r == Head(resolved)
       IN (CASE s.k = "Block" -> DeclaredIds(s.inner, r.inner)
             [] s.k = "DeclareVariable" -> <<r.local_id>>
             [] OTHER -> <<>>) \o DeclaredIds(Tail(statements), Tail(resolved))

\* The locals of context c are those of `statements`, numbered in text
\* order, each in the local set of its own scope and of no other.
LocalsOwned(c, statements) ==
  LET decls == Declarations(statements, 0, [scopes |-> 1, decls |-> <<>>]).decls
  IN /\ c.next_local_id = Len(decls)
     /\ DOMAIN c.locals = 0..(Len(decls) - 1)
     /\ \A i \in DOMAIN c.locals :
          /\ c.locals[i].id = i
          /\ c.locals[i].name = decls[i + 1].name
          /\ c.locals[i].scope_id = decls[i + 1].scope
          /\ \A sc \in DOMAIN c.scopes :
               (i \in c.scopes[sc].locals) = (sc = c.locals[i].scope_id)
     /\ \A sc \in DOMAIN c.scopes : c.scopes[sc].locals \subseteq DOMAIN c.locals

\* C23: every DeclareVariable gets an id never issued before (0, 1, 2, ...
\* in declaration order, also for a redeclared name), and every local is in
\* the local set of exactly one scope, the one current at its declaration.
\* Checked on the context the resolver returned and on the one it holds
\* after each top-level statement, for every bucket order.
C23_LocalsAreFreshAndOwned ==
  /\ ResolverSucceeded =>
       /\ LocalsOwned(ctx, program)
       /\ DeclaredIds(program, rast) = [i \in 1..ctx.next_local_id |-> i - 1]
  /\ pc = "resolve" =>
       \A hash_order \in HashOrders(program) : \A k \in 0..Len(program) :
         ResolvedPrefix(k, hash_order).ok =>
           LocalsOwned(ResolvedPrefix(k, hash_order).ctx, SubSeq(program, 1, k))

\* `let x = 1; { let x = 1; } let x: i32 = x;`: three locals named x, ids
\* 0, 1, 2, the second owned by the block's scope.
C23_Witness ==
  /\ src = Join(<<ItemText([s |-> "D", open |-> FALSE, close |-> FALSE]),
                  ItemText([s |-> "D", open |-> TRUE, close |-> TRUE]),
                  ItemText([s |-> "R", open |-> FALSE, close |-> FALSE])>>)
  /\ ResolverSucceeded
  /\ ctx.next_local_id = 3
  /\ \A i \in 0..2 : ctx.locals[i].name = <<"x">>
  /\ ctx.scopes[0].locals = {0, 2}
  /\ ctx.scopes[1].locals = {1}
  /\ DeclaredIds(program, rast) = <<0, 1, 2>>

RECURSIVE CheckSteps(_, _, _)
\* The assignments visit_program checks, one entry each in the order they
\* are checked (blocks entered, the first failure last), with the context
\* before and after the check of that assignment.
CheckSteps(c, scope_id, statements) ==
  IF statements = <<>> THEN [ok |-> TRUE, ctx |-> c, steps |-> <<>>]
  ELSE LET s == Head(statements)
           first == IF s.k = "Block" THEN CheckSteps(c, s.scope_id, s.inner)
                    ELSE LET r == visit_statement(c, scope_id, s)
                         IN [ok |-> r.ok, ctx |-> r.ctx,
                             steps |-> <<[before |-> c, scope_id |-> scope_id,
                                          statement |-> s, after |-> r.ctx]>>]
       IN IF ~first.ok THEN first
          ELSE LET rest == CheckSteps(first.ctx, scope_id, Tail(statements))
               IN [ok |-> rest.ok, ctx |-> rest.ctx, steps |-> first.steps \o rest.steps]

\* One checked assignment changes at most the type of its target, only from
\* absent, and then to the type of its right-hand side.
TypeStep(st) ==
  LET id == st.statement.local_id
      was == st.before.locals[id].initial_type
      value_type == resolve_expression(st.before, st.scope_id, st.statement.value)
  IN /\ [st.after EXCEPT !.locals[id].initial_type = was] = st.before
     /\ is_some(was) => st.after = st.before
     /\ st.after # st.before =>
          value_type.ok /\ st.after.locals[id].initial_type = Some(value_type.val)

\* What type checking may do to the context in one run of visit_program.
C24_Checked ==
  pc = "check" =>
    LET checked == CheckSteps(ctx, 0, rast)
    IN /\ ctx' = checked.ctx
       /\ \A i \in 1..Len(checked.steps) :
            /\ TypeStep(checked.steps[i])
            /\ checked.steps[i].before = IF i = 1 THEN ctx ELSE checked.steps[i - 1].after
       /\ ctx'.scopes = ctx.scopes
       /\ DOMAIN ctx'.locals = DOMAIN ctx.locals
       /\ \A id \in DOMAIN ctx.locals :
            /\ ctx'.locals[id].id = ctx.locals[id].id
            /\ ctx'.locals[id].scope_id = ctx.locals[id].scope_id
            /\ ctx'.locals[id].name = ctx.locals[id].name
            /\ is_some(ctx.locals[id].initial_type) =>
                 ctx'.locals[id].initial_type = ctx.locals[id].initial_type

\* C24: during type checking a local's type changes at most once, from
\* absent to the type of the right-hand side of the first checked assignment
\* to it; a local that has a type keeps it, and no local's id, owning scope
\* or name changes, nor the scope table.
C24_TypeFixedByFirstAssignment == [][C24_Checked]_vars

\* `let x = 1; let b: bool = b; x = 2;` after type checking: x was untyped
\* when the resolver returned and is I32 now, b is still Bool.
C24_Witness ==
  /\ src = Join(<<TypedText("LX"), TypedText("LB"), TypedText("X2")>>)
  /\ pc = "execute"
  /\ transform_program(program, ctx.hash_order).ctx.locals[0].initial_type = None
  /\ ctx.locals[0].initial_type = Some(Primitive("I32"))
  /\ ctx.locals[1].initial_type = Some(Primitive("Bool"))
  /\ Len(CheckSteps(transform_program(program, ctx.hash_order).ctx, 0, rast).steps) = 3

RECURSIVE ExecSteps(_, _, _)
\* The assignments executed by a statement list, one entry each in the
\* order they run (blocks entered, an abort last), with the environment
\* before and after.
ExecSteps(env, statements, overflow_checks) ==
  IF statements = <<>> THEN [ok |-> TRUE, locals |-> env, steps |-> <<>>]
  ELSE LET s == Head(statements)
           first == IF s.k = "Block" THEN ExecSteps(env, s.inner, overflow_checks)
                    ELSE LET r == execute(env, s, overflow_checks)
                         IN [ok |-> r.ok, locals |-> r.locals,
                             steps |-> <<[before |-> env, statement |-> s,
                                          after |-> r.locals, ok |-> r.ok]>>]
       IN IF ~first.ok THEN first
          ELSE LET rest == ExecSteps(first.locals, Tail(statements), overflow_checks)
               IN [ok |-> rest.ok, locals |-> rest.locals,
                   steps |-> first.steps \o rest.steps]

\* One executed assignment: the target's entry becomes the value of the
\* right-hand side in the environment before the store, every other entry
\* stays, none is removed; an abort stores nothing.
StoreStep(st, overflow_checks) ==
  LET id == st.statement.local_id
      rhs == evaluate(st.before, st.statement.value, overflow_checks)
  IN /\ DOMAIN st.after = DOMAIN st.before \cup (IF st.ok THEN {id} ELSE {})
     /\ \A other \in DOMAIN st.before :
          other # id \/ ~st.ok => st.after[other] = st.before[other]
     /\ st.ok => rhs.t # "Panic" /\ st.after[id] = rhs

\* What one top-level statement may do to the environment.
C25_Executed ==
  pc = "execute" /\ next <= Len(rast) =>
    \E overflow_checks \in Builds(input) :
      LET executed == ExecSteps(locals, <<rast[next]>>, overflow_checks)
      IN /\ locals' = executed.locals
         /\ \A i \in 1..Len(executed.steps) :
              /\ StoreStep(executed.steps[i], overflow_checks)
              /\ executed.steps[i].before =
                   IF i = 1 THEN locals ELSE executed.steps[i - 1].after
         /\ DOMAIN locals \subseteq DOMAIN locals'

\* C25: executing an AssignLocal changes only the entry of its target, to
\* the value of the right-hand side in the environment before the store;
\* every other entry is unchanged and no statement, leaving a Block
\* included, removes an entry.
C25_StoreChangesOnlyItsTarget == [][C25_Executed]_vars

\* `let x = 1; { let y = x; } x = 3;` after the last statement: y outlives
\* its block and keeps its value, x is overwritten.
C25_Witness ==
  /\ src = Join(<<ItemText([s |-> "D", open |-> FALSE, close |-> FALSE]),
                  ItemText([s |-> "Y", open |-> TRUE, close |-> TRUE]),
                  ItemText([s |-> "A", open |-> FALSE, close |-> FALSE])>>)
  /\ pc = "done"
  /\ result = ReturnedOk(None)
  /\ DOMAIN locals = {0, 1}
  /\ locals[0] = I32(3)
  /\ locals[1] = I32(1)

\* C26: after any sequence of CharStream operations byte_offset() is the
\* number of bytes consumed so far, byte_offset() + remaining() is the
\* length of the buffer, the cursor is on a character boundary (no
\* operation panics on a slice), and on an exhausted stream byte_offset()
\* is the length of the buffer while peek and take give None and leave the
\* stream as it is.
C26_ByteOffsetCountsConsumed ==
  pc = "chars" =>
    /\ ~chars.panicked
    /\ CharStream_byte_offset(chars.cs) = chars.consumed
    /\ CharStream_byte_offset(chars.cs) + CharStream_remaining(chars.cs) = Len(chars.cs.full)
    /\ is_char_boundary(chars.cs.full, CharStream_byte_offset(chars.cs))
    /\ CharStream_remaining(chars.cs) = 0 =>
         /\ CharStream_byte_offset(chars.cs) = Len(chars.cs.full)
         /\ CharStream_peek(chars.cs) = None
         /\ CharStream_take(chars.cs) = Outcome(chars.cs, None, FALSE)
         /\ CharStream_advance(chars.cs) = Outcome(chars.cs, None, FALSE)

\* A three-byte and a two-byte character, then `a`: a take, then take_until
\* up to `a`, then take_while to the end, which swaps in the static "".
C26_Witness ==
  /\ pc = "chars"
  /\ src = <<"U+4E47", "U+00E9", "a">>
  /\ chars.ops = <<"take", "take_until", "take_while", "take">>
  /\ chars.consumed = 6
  /\ chars.cs.remaining = StaticEmpty
  /\ chars.out = None
  /\ CharStream_byte_offset(chars.cs) = 6

\* The stream between two bytes of a character is never reached: after one
\* take of the three-byte character the offset is 3.
C26_AfterWideChar ==
  /\ pc = "chars"
  /\ src = <<"U+4E47", "a">>
  /\ chars.ops = <<"take">>
  /\ chars.out = Some("U+4E47")
  /\ CharStream_byte_offset(chars.cs) = 3
  /\ CharStream_remaining(chars.cs) = 1

====
